---- MODULE Spec2Model ----
(***************************************************************************)
(* PEERGRADE scoring pipeline: the document store (sessions, feedback,     *)
(* assignments, skillScores, userSkills, users), the two calculators       *)
(* (recomputeSkillScore, recomputeCredibilityScore), the three trigger     *)
(* handlers (submitFeedback, gradeAssignment, completeSession) and the     *)
(* read view getCredibility.                                               *)
(*                                                                         *)
(* Numbers: JavaScript doubles are modelled by exact rationals [n, d]      *)
(* (d > 0); Math.round(x) is floor(x + 1/2).  Grades that the code keeps   *)
(* to two decimals are kept in hundredths.  Document ids (uuidv4) are      *)
(* modelled by the first free index of the document's natural key.         *)
(***************************************************************************)
EXTENDS Integers, Sequences, FiniteSets, TLC

\* ------------------------------------------------------------- bounds
MaxLive == 1          \* sessions that are still open in the initial store
MaxFailures == 1      \* store calls that reject in one behaviour
MaxClock == 1         \* ticks of the wall clock (SpecIdem)
MaxRequests == 2   \* session requests sent in one behaviour
MaxTop == 3        \* completed sessions per skill in the many-skills store

Users == {"u1", "u2", "u3"}
Skills == {"k1", "k2"}
Questions == {"q1", "q2", "q3"}
Procs == {"p1", "p2"}

\* ------------------------------------------------------- arithmetic
Min(a, b) == IF a < b THEN a ELSE b
Max(a, b) == IF a > b THEN a ELSE b

Rat(n, d) == [n |-> n, d |-> d]
RAdd(p, q) == Rat(p.n * q.d + q.n * p.d, p.d * q.d)
RInt(i) == Rat(i, 1)
RGt(p, q) == p.n * q.d > q.n * p.d
REq(p, q) == p.n * q.d = q.n * p.d

\* Math.round on a rational: the nearest integer, halves towards +infinity
Round(q) == (2 * q.n + q.d) \div (2 * q.d)

RECURSIVE SumOver(_, _)
SumOver(S, f) ==
    IF S = {} THEN 0
    ELSE LET x == CHOOSE y \in S : TRUE
         IN f[x] + SumOver(S \ {x}, f)

\* ------------------------------------------------------------ state
VARIABLES
    db,        \* the document store: one field per collection
    last,      \* outcome of the last handler call
    failures,  \* store calls that have rejected so far
    clock,     \* the wall clock read by new Date()
    runs       \* recomputeSkillScore calls in flight (SpecConc)

vars == <<db, last, failures, clock, runs>>

\* collections, as functions from document id to document
Docs(coll) == {coll[id] : id \in DOMAIN coll}

EmptyColl == [id \in {} |-> 0]
Put(coll, id, doc) == [x \in (DOMAIN coll) \cup {id} |-> IF x = id THEN doc ELSE coll[x]]

\* skill.skillName of the userSkills listing a session was requested for
SkillName(skillId) == IF skillId = "k1" THEN "n1" ELSE "n2"

\* ------------------------------------- recomputeSkillScore (calculator)
\* assignmentsSnapshot: where userId == , skillId == , graded == true
GradedAssignments(assignments, userId, skillId) ==
    {a \in Docs(assignments) :
        a.userId = userId /\ a.skillId = skillId /\ a.graded}

\* totalScore / assignmentsSnapshot.size, each score being finalScore * 20
\* (finalScore is stored in hundredths)
AssignmentAvg(assignmentsSnapshot) ==
    IF assignmentsSnapshot = {} THEN RInt(0)
    ELSE Rat(SumOver(assignmentsSnapshot,
                     [a \in assignmentsSnapshot |-> a.finalScore * 20]),
             100 * Cardinality(assignmentsSnapshot))

\* feedbackSnapshot: where toUserId == userId
FeedbackTo(feedback, userId) == {f \in Docs(feedback) : f.toUserId = userId}

\* sessionsSnapshot filtered to the sessions the user took part in
RelevantSessions(sessions, userId, skillId) ==
    {s \in Docs(sessions) :
        /\ s.skillId = skillId
        /\ s.status = "completed"
        /\ (s.learnerId = userId \/ s.teacherId = userId)}

ConsistencyScore(sessionCount) == Min(sessionCount * 10, 100)

RelevantFeedbackAll(feedbackSnapshot, relevantSessions) == feedbackSnapshot

\* the feedback whose sessionId is one of the relevant sessions' ids
RelevantFeedback(feedbackSnapshot, relevantSessions) ==
    {f \in feedbackSnapshot : f.sessionId \in {s.id : s \in relevantSessions}}

FeedbackAvgNeutral(relevantFeedback) ==
    IF relevantFeedback = {} THEN RInt(50)
    ELSE Rat(20 * SumOver(relevantFeedback,
                          [f \in relevantFeedback |-> f.rating]),
             Cardinality(relevantFeedback))

\* (totalRating / relevantFeedback.length) * 20, 0 when there is none
FeedbackAvg(relevantFeedback) ==
    IF relevantFeedback = {} THEN RInt(0)
    ELSE Rat(20 * SumOver(relevantFeedback,
                          [f \in relevantFeedback |-> f.rating]),
             Cardinality(relevantFeedback))

WeightedScoreSwapped(assignmentAvg, feedbackAvg, consistencyScore) ==
    Rat(3 * assignmentAvg.n * feedbackAvg.d
          + 6 * feedbackAvg.n * assignmentAvg.d
          + consistencyScore * assignmentAvg.d * feedbackAvg.d,
        10 * assignmentAvg.d * feedbackAvg.d)

\* assignmentAvg * 0.60 + feedbackAvg * 0.30 + consistencyScore * 0.10
WeightedScore(assignmentAvg, feedbackAvg, consistencyScore) ==
    Rat(6 * assignmentAvg.n * feedbackAvg.d
          + 3 * feedbackAvg.n * assignmentAvg.d
          + consistencyScore * assignmentAvg.d * feedbackAvg.d,
        10 * assignmentAvg.d * feedbackAvg.d)

\* scoreData, from the assignment average computed after the first query and
\* the feedback and session snapshots of the second and third
ScoreData(userId, skillId, skillName, assignmentAvg, feedbackSnapshot, sessions, now) ==
    LET relevantSessions == RelevantSessions(sessions, userId, skillId)
        sessionCount == Cardinality(relevantSessions)
        feedbackAvg ==
            FeedbackAvg(RelevantFeedback(feedbackSnapshot, relevantSessions))
    IN [id |-> <<userId, skillId>>,
        userId |-> userId,
        skillId |-> skillId,
        skillName |-> skillName,
        assignmentAvg |-> Round(assignmentAvg),
        feedbackAvg |-> Round(feedbackAvg),
        sessionCount |-> sessionCount,
        finalScore |-> Round(WeightedScore(assignmentAvg, feedbackAvg,
                                           ConsistencyScore(sessionCount))),
        updatedAt |-> now]

\* the record a call computes when all three queries see the store d
SkillScoreOf(d, userId, skillId, skillName, now) ==
    ScoreData(userId, skillId, skillName,
              AssignmentAvg(GradedAssignments(d.assignments, userId, skillId)),
              FeedbackTo(d.feedback, userId), d.sessions, now)

\* db.collection('skillScores').doc(scoreId).set(scoreData)
WriteSkillScoreAdd(skillScores, scoreData) ==
    Put(skillScores,
        <<scoreData.userId, scoreData.skillId, Cardinality(DOMAIN skillScores)>>,
        scoreData)

WriteSkillScoreOnce(skillScores, scoreData) ==
    IF scoreData.id \in DOMAIN skillScores THEN skillScores
    ELSE Put(skillScores, scoreData.id, scoreData)

WriteSkillScore(skillScores, scoreData) ==
    Put(skillScores, scoreData.id, scoreData)

\* a skill score record without its time stamp
Unstamped(r) == [r EXCEPT !.updatedAt = 0]

recomputeSkillScoreMerge(d, userId, skillId, skillName, now) ==
    LET scoreData == SkillScoreOf(d, userId, skillId, skillName, now)
        merged ==
            IF scoreData.id \in DOMAIN d.skillScores
            THEN [scoreData EXCEPT !.sessionCount =
                      @ + d.skillScores[scoreData.id].sessionCount]
            ELSE scoreData
    IN [d EXCEPT !.skillScores = WriteSkillScore(d.skillScores, merged)]

recomputeSkillScore(d, userId, skillId, skillName, now) ==
    [d EXCEPT !.skillScores =
        WriteSkillScore(d.skillScores,
                        SkillScoreOf(d, userId, skillId, skillName, now))]

\* --------------------------- recomputeCredibilityScore (aggregator)
RECURSIVE TopByFinalScore(_, _)
\* orderBy('finalScore', 'desc').limit(n)
TopByFinalScore(scores, n) ==
    IF n = 0 \/ scores = {} THEN {}
    ELSE LET top == CHOOSE r \in scores :
                        \A q \in scores : q.finalScore <= r.finalScore
         IN {top} \cup TopByFinalScore(scores \ {top}, n - 1)

SkillsSnapshotAll(skillScores, userId) ==
    {r \in Docs(skillScores) : r.userId = userId}

\* skillsSnapshot: where userId == , orderBy finalScore desc, limit 3
SkillsSnapshot(skillScores, userId) ==
    TopByFinalScore({r \in Docs(skillScores) : r.userId = userId}, 3)

AvgSkillScore(skillsSnapshot) ==
    IF skillsSnapshot = {} THEN RInt(0)
    ELSE Rat(SumOver(skillsSnapshot, [r \in skillsSnapshot |-> r.finalScore]),
             Cardinality(skillsSnapshot))

TeachingFeedbackAny(feedback, userId) ==
    {f \in Docs(feedback) : f.toUserId = userId}

\* feedbackSnapshot: where toUserId == , role == 'learner'
TeachingFeedback(feedback, userId) ==
    {f \in Docs(feedback) : f.toUserId = userId /\ f.role = "learner"}

\* (totalRating / size) / 5 * 100
AvgTeachingRating(feedbackSnapshot) ==
    IF feedbackSnapshot = {} THEN RInt(0)
    ELSE Rat(100 * SumOver(feedbackSnapshot,
                           [f \in feedbackSnapshot |-> f.rating]),
             5 * Cardinality(feedbackSnapshot))

LearnerSessions(sessions, userId) ==
    {s \in Docs(sessions) : s.learnerId = userId /\ s.status = "completed"}

TeacherSessions(sessions, userId) ==
    {s \in Docs(sessions) : s.teacherId = userId /\ s.status = "completed"}

\* learnerSessions.size + teacherSessions.size
CredSessionCount(sessions, userId) ==
    Cardinality(LearnerSessions(sessions, userId))
        + Cardinality(TeacherSessions(sessions, userId))

ConsistencyBonusGt(sessionCount) ==
    IF sessionCount > 30 THEN 10
    ELSE IF sessionCount > 15 THEN 5
    ELSE IF sessionCount > 5 THEN 2
    ELSE 0

ConsistencyBonus(sessionCount) ==
    IF sessionCount >= 30 THEN 10
    ELSE IF sessionCount >= 15 THEN 5
    ELSE IF sessionCount >= 5 THEN 2
    ELSE 0

\* (avgSkillScore + avgTeachingRating) / 2
BaseScore(avgSkillScore, avgTeachingRating) ==
    Rat(avgSkillScore.n * avgTeachingRating.d
            + avgTeachingRating.n * avgSkillScore.d,
        2 * avgSkillScore.d * avgTeachingRating.d)

BlendHalved(skillsSnapshot, feedbackSnapshot) ==
    BaseScore(AvgSkillScore(skillsSnapshot), AvgTeachingRating(feedbackSnapshot))

\* finalScore before the bonus: the if / else-if chain on the two snapshots
Blend(skillsSnapshot, feedbackSnapshot) ==
    IF skillsSnapshot = {} /\ feedbackSnapshot = {} THEN RInt(0)
    ELSE IF feedbackSnapshot = {} THEN AvgSkillScore(skillsSnapshot)
    ELSE IF skillsSnapshot = {} THEN AvgTeachingRating(feedbackSnapshot)
    ELSE BaseScore(AvgSkillScore(skillsSnapshot),
                   AvgTeachingRating(feedbackSnapshot))

ClampScoreLow(x) == IF RGt(RInt(0), x) THEN RInt(0) ELSE x

\* Math.min(Math.max(finalScore, 0), 100)
ClampScore(x) ==
    LET lo == IF RGt(RInt(0), x) THEN RInt(0) ELSE x
    IN IF RGt(lo, RInt(100)) THEN RInt(100) ELSE lo

\* finalScore after "finalScore += consistencyBonus", before the clamp
CredibilityRaw(d, userId) ==
    RAdd(Blend(SkillsSnapshot(d.skillScores, userId),
               TeachingFeedback(d.feedback, userId)),
         RInt(ConsistencyBonus(CredSessionCount(d.sessions, userId))))

\* the update written to the user profile
CredibilityUpdate(d, userId, now) ==
    [credibilityScore |-> Round(ClampScore(CredibilityRaw(d, userId))),
     credibilityStats |->
        {[avgSkillScore |->
              Round(AvgSkillScore(SkillsSnapshot(d.skillScores, userId))),
          avgTeachingRating |->
              Round(AvgTeachingRating(TeachingFeedback(d.feedback, userId))),
          sessionCount |-> CredSessionCount(d.sessions, userId),
          consistencyBonus |->
              ConsistencyBonus(CredSessionCount(d.sessions, userId)),
          updatedAt |-> now]}]

\* db.collection('users').doc(userId).update({credibilityScore, credibilityStats})
recomputeCredibilityScore(d, userId, now) ==
    [d EXCEPT !.users[userId] =
        [@ EXCEPT !.credibilityScore =
                      CredibilityUpdate(d, userId, now).credibilityScore,
                  !.credibilityStats =
                      CredibilityUpdate(d, userId, now).credibilityStats]]

\* ------------------------------------------------ store writes (steps)
\* A handler is its guards followed by a list of store calls (steps), run in
\* order; a step whose store call rejects throws, and nothing after it runs.

ExistingFeedback(feedback, sessionId, userId) ==
    {f \in Docs(feedback) : f.sessionId = sessionId /\ f.fromUserId = userId}

ExistingAssignments(assignments, sessionId, userId) ==
    {a \in Docs(assignments) : a.sessionId = sessionId /\ a.userId = userId}

\* uuidv4(): an id no document of the collection has
FreshId(coll, a, b) ==
    <<a, b, CHOOSE k \in 0..Cardinality(DOMAIN coll) : <<a, b, k>> \notin DOMAIN coll>>

\* the assignment document that createAssignment sets, under a fresh id
setAssignment(d, sessionId, userId, skillId, skillName) ==
    LET assignmentId == FreshId(d.assignments, sessionId, userId)
    IN [d EXCEPT !.assignments =
            Put(@, assignmentId,
                [id |-> assignmentId, sessionId |-> sessionId,
                 userId |-> userId, skillId |-> skillId,
                 skillName |-> skillName, submitted |-> FALSE,
                 graded |-> FALSE, gradedBy |-> "", finalScore |-> 0])]

\* createAssignment: the existing assignment of (sessionId, userId) is kept,
\* otherwise a new unsubmitted one is stored
createAssignment(d, sessionId, userId, skillId, skillName) ==
    IF ExistingAssignments(d.assignments, sessionId, userId) # {} THEN d
    ELSE setAssignment(d, sessionId, userId, skillId, skillName)

\* getOrCreateUserSkill (legacy userSkills record of the pair)
getOrCreateUserSkill(d, userId, skillId, skillName) ==
    IF <<userId, skillId>> \in DOMAIN d.userSkills THEN d
    ELSE [d EXCEPT !.userSkills =
            Put(@, <<userId, skillId>>,
                [id |-> <<userId, skillId>>, userId |-> userId,
                 skillId |-> skillId, skillName |-> skillName,
                 score |-> 0, sessions |-> 0])]

\* updateSkillScore's update: the running average, kept to two decimals
\* (score and finalScore in hundredths)
updateSkillScore(d, userId, skillId, finalScore) ==
    LET userSkill == d.userSkills[<<userId, skillId>>]
        newScore == Rat(userSkill.score * userSkill.sessions + finalScore * 20,
                        userSkill.sessions + 1)
    IN [d EXCEPT !.userSkills[<<userId, skillId>>] =
            [@ EXCEPT !.score = Round(newScore),
                      !.sessions = userSkill.sessions + 1]]

Apply(d, step, now) ==
    CASE step.op = "feedback.set" ->
            [d EXCEPT !.feedback = Put(@, step.doc.id, step.doc)]
      [] step.op = "session.update" ->
            [d EXCEPT !.sessions[step.id].status = "completed"]
      [] step.op = "session.schedule" ->
            [d EXCEPT !.sessions[step.id].scheduledAt = step.scheduledAt]
      [] step.op = "createAssignment" ->
            createAssignment(d, step.sessionId, step.userId, step.skillId,
                             step.skillName)
      [] step.op = "assignment.submit" ->
            [d EXCEPT !.assignments[step.id].submitted = TRUE]
      [] step.op = "assignment.grade" ->
            [d EXCEPT !.assignments[step.id] =
                [@ EXCEPT !.graded = TRUE, !.gradedBy = step.gradedBy,
                          !.finalScore = step.finalScore]]
      [] step.op = "getOrCreateUserSkill" ->
            getOrCreateUserSkill(d, step.userId, step.skillId, step.skillName)
      [] step.op = "updateSkillScore" ->
            updateSkillScore(d, step.userId, step.skillId, step.finalScore)
      [] step.op = "recomputeSkillScore" ->
            recomputeSkillScore(d, step.userId, step.skillId, step.skillName,
                                now)
      [] step.op = "recomputeCredibilityScore" ->
            recomputeCredibilityScore(d, step.userId, now)
      [] OTHER -> d   \* "get": a read

RECURSIVE RunFrom(_, _, _, _, _)
RunFrom(d, steps, i, failAt, now) ==
    IF i > Len(steps) \/ i = failAt THEN d
    ELSE RunFrom(Apply(d, steps[i], now), steps, i + 1, failAt, now)

\* the store after the steps before failAt have run (failAt = 0: all of them)
RunSteps(d, steps, failAt, now) == RunFrom(d, steps, 1, failAt, now)

\* the steps that ran
Ran(steps, failAt) ==
    IF failAt = 0 THEN steps ELSE SubSeq(steps, 1, failAt - 1)

SkillStep(userId, skillId, skillName) ==
    [op |-> "recomputeSkillScore", userId |-> userId, skillId |-> skillId,
     skillName |-> skillName]

CredStep(userId) == [op |-> "recomputeCredibilityScore", userId |-> userId]

GetStep == [op |-> "get"]

\* ------------------------------------------------------------ inputs
LiveIds == 1..MaxLive
SessionInputs == LiveIds \cup {0}              \* 0: no such session
RatingInputs == {5, 6}
ScoreInputs ==
    {[q \in Questions |-> 4], [q \in Questions |-> 5],
     [q \in Questions |-> 6],
     [q \in {"q1", "q2"} |-> 5],
     [q \in Questions \cup {"extra"} |-> IF q = "extra" THEN 100 ELSE 5]}

OK == "200"
Thrown == "500"    \* a rejected store call, propagated to the caller

\* what a call left behind: the handler, its HTTP status, the store call that
\* rejected, the store calls that ran, the value returned and, when the call
\* before it was the same call, the value that one returned
Outcome(op, status, failed, log, value) ==
    [op |-> op, status |-> status, failed |-> failed, log |-> log,
     value |-> value, before |-> {}]

FailedOp(steps, failAt) == IF failAt = 0 THEN "" ELSE steps[failAt].op

\* a call that passed its guards: the steps run up to the failing one
Call(op, steps, failAt, caught, value) ==
    /\ failAt \in 0..Len(steps)
    /\ failAt # 0 => failures < MaxFailures
    /\ db' = RunSteps(db, steps, failAt, clock)
    /\ failures' = IF failAt = 0 THEN failures ELSE failures + 1
    /\ last' = [Outcome(op,
                        IF failAt = 0 \/ failAt \in caught THEN OK ELSE Thrown,
                        FailedOp(steps, failAt), Ran(steps, failAt),
                        IF failAt = 0 \/ failAt \in caught THEN value ELSE {})
                   EXCEPT !.before =
                       IF last.op = op /\ last.status = OK /\ failAt = 0
                          /\ last.log = steps
                       THEN last.value ELSE {}]
    /\ UNCHANGED <<clock, runs>>

\* a call that one of the handler's guards threw out
Reject(op, status) ==
    /\ last' = Outcome(op, status, "", <<>>, {})
    /\ UNCHANGED <<db, failures, clock, runs>>

\* --------------------------------------------------- submitFeedback
SubmitFeedbackStatus(d, sessionId, userId, rating) ==
    IF rating = 0 \/ rating < 1 \/ rating > 5 THEN "400"
    ELSE IF sessionId \notin DOMAIN d.sessions THEN "404"
    ELSE IF d.sessions[sessionId].status # "completed" THEN "400"
    ELSE IF d.sessions[sessionId].teacherId # userId
            /\ d.sessions[sessionId].learnerId # userId THEN "403"
    ELSE IF ExistingFeedback(d.feedback, sessionId, userId) # {} THEN "409"
    ELSE OK

NewFeedback(d, session, userId, rating) ==
    LET isTeacher == session.teacherId = userId
    IN [id |-> FreshId(d.feedback, session.id, userId),
        sessionId |-> session.id,
        fromUserId |-> userId,
        toUserId |-> IF isTeacher THEN session.learnerId ELSE session.teacherId,
        role |-> IF isTeacher THEN "teacher" ELSE "learner",
        rating |-> rating]

SubmitFeedbackStepsSkillOnly(session, feedback) ==
    <<[op |-> "feedback.set", doc |-> feedback]>>
    \o (IF session.skillId # "" /\ session.skillName # ""
        THEN <<SkillStep(feedback.toUserId, session.skillId, session.skillName)>>
        ELSE <<>>)

SubmitFeedbackSteps(session, feedback) ==
    <<[op |-> "feedback.set", doc |-> feedback]>>
    \o (IF session.skillId # "" /\ session.skillName # ""
        THEN <<SkillStep(feedback.toUserId, session.skillId, session.skillName)>>
        ELSE <<>>)
    \o <<CredStep(feedback.toUserId)>>

SubmitFeedbackOn(sessionId, userId, rating) ==
    LET status == SubmitFeedbackStatus(db, sessionId, userId, rating)
    IN IF status # OK THEN Reject("submitFeedback", status)
       ELSE LET feedback == NewFeedback(db, db.sessions[sessionId], userId, rating)
                steps == SubmitFeedbackSteps(db.sessions[sessionId], feedback)
            IN \E failAt \in 0..Len(steps) :
                  Call("submitFeedback", steps, failAt, {}, {feedback})

SubmitFeedback ==
    \E sessionId \in SessionInputs, userId \in Users, rating \in RatingInputs :
        SubmitFeedbackOn(sessionId, userId, rating)

\* ------------------------------------------------- submitAssignment
SubmitAssignmentStatus(d, assignmentId, userId) ==
    IF assignmentId \notin DOMAIN d.assignments THEN "404"
    ELSE IF d.assignments[assignmentId].userId # userId THEN "403"
    ELSE IF d.assignments[assignmentId].submitted THEN "400"
    ELSE OK

AssignmentInputs == {<<s, u, 0>> : s \in LiveIds, u \in Users}

SubmitAssignmentOn(assignmentId, userId) ==
    LET status == SubmitAssignmentStatus(db, assignmentId, userId)
    IN IF status # OK THEN Reject("submitAssignment", status)
       ELSE LET steps == <<[op |-> "assignment.submit", id |-> assignmentId],
                           GetStep>>
            IN \E failAt \in 0..Len(steps) :
                  Call("submitAssignment", steps, failAt, {},
                       {[db.assignments[assignmentId] EXCEPT !.submitted = TRUE]})

SubmitAssignment ==
    \E assignmentId \in AssignmentInputs, userId \in Users :
        SubmitAssignmentOn(assignmentId, userId)

\* -------------------------------------------------- gradeAssignment
GradeAssignmentStatusRegrade(d, assignmentId, graderId, scores) ==
    IF assignmentId \notin DOMAIN d.assignments THEN "404"
    ELSE IF d.assignments[assignmentId].sessionId \notin DOMAIN d.sessions THEN "404"
    ELSE IF d.sessions[d.assignments[assignmentId].sessionId].teacherId # graderId
         THEN "403"
    ELSE IF ~d.assignments[assignmentId].submitted THEN "400"
    ELSE IF \E q \in Questions :
                q \notin DOMAIN scores \/ scores[q] < 1 \/ scores[q] > 5 THEN "400"
    ELSE OK

GradeAssignmentStatus(d, assignmentId, graderId, scores) ==
    IF assignmentId \notin DOMAIN d.assignments THEN "404"
    ELSE IF d.assignments[assignmentId].sessionId \notin DOMAIN d.sessions THEN "404"
    ELSE IF d.sessions[d.assignments[assignmentId].sessionId].teacherId # graderId
         THEN "403"
    ELSE IF ~d.assignments[assignmentId].submitted THEN "400"
    ELSE IF d.assignments[assignmentId].graded THEN "400"
    ELSE IF \E q \in Questions :
                q \notin DOMAIN scores \/ scores[q] < 1 \/ scores[q] > 5 THEN "400"
    ELSE OK

\* Math.round(finalScore * 100) / 100 over Object.values(scores), in hundredths
RoundedFinalScore(scores) ==
    Round(Rat(100 * SumOver(DOMAIN scores, scores), Cardinality(DOMAIN scores)))

GradeAssignmentSteps(assignment, graderId, finalScore) ==
    <<[op |-> "assignment.grade", id |-> assignment.id, gradedBy |-> graderId,
       finalScore |-> finalScore],
      [op |-> "getOrCreateUserSkill", userId |-> assignment.userId,
       skillId |-> assignment.skillId, skillName |-> assignment.skillName],
      [op |-> "updateSkillScore", userId |-> assignment.userId,
       skillId |-> assignment.skillId, finalScore |-> finalScore],
      SkillStep(assignment.userId, assignment.skillId, assignment.skillName),
      CredStep(assignment.userId),
      GetStep>>

GradeAssignmentOn(assignmentId, graderId, scores) ==
    LET status == GradeAssignmentStatus(db, assignmentId, graderId, scores)
    IN IF status # OK THEN Reject("gradeAssignment", status)
       ELSE LET assignment == db.assignments[assignmentId]
                finalScore == RoundedFinalScore(scores)
                steps == GradeAssignmentSteps(assignment, graderId, finalScore)
            IN \E failAt \in 0..Len(steps) :
                  Call("gradeAssignment", steps, failAt, {},
                       {[assignment EXCEPT !.graded = TRUE,
                                           !.gradedBy = graderId,
                                           !.finalScore = finalScore]})

GradeAssignment ==
    \E assignmentId \in AssignmentInputs, graderId \in Users, scores \in ScoreInputs :
        GradeAssignmentOn(assignmentId, graderId, scores)

\* -------------------------------------------------- completeSession
CompleteSessionStatusAny(d, sessionId, userId) ==
    IF sessionId \notin DOMAIN d.sessions THEN "404"
    ELSE IF d.sessions[sessionId].teacherId # userId
            /\ d.sessions[sessionId].learnerId # userId THEN "403"
    ELSE OK

CompleteSessionStatus(d, sessionId, userId) ==
    IF sessionId \notin DOMAIN d.sessions THEN "404"
    ELSE IF d.sessions[sessionId].teacherId # userId
            /\ d.sessions[sessionId].learnerId # userId THEN "403"
    ELSE IF d.sessions[sessionId].status = "completed" THEN OK
    ELSE IF d.sessions[sessionId].status # "scheduled"
            /\ d.sessions[sessionId].status # "ongoing" THEN "400"
    ELSE OK

\* createAssignmentsForSession: the learner's, and in mutual mode with a
\* learnerSkill the teacher's
CreateAssignmentsSteps(session) ==
    <<[op |-> "createAssignment", sessionId |-> session.id,
       userId |-> session.learnerId, skillId |-> session.skillId,
       skillName |-> session.skillName]>>
    \o (IF session.mode = "mutual" /\ session.learnerSkill # ""
        THEN <<[op |-> "createAssignment", sessionId |-> session.id,
                userId |-> session.teacherId, skillId |-> session.skillId,
                skillName |-> session.learnerSkill]>>
        ELSE <<>>)

ScoreStepsCredFirst(session) ==
    <<CredStep(session.learnerId), CredStep(session.teacherId)>>
    \o (IF session.skillId # "" /\ session.skillName # ""
        THEN <<SkillStep(session.learnerId, session.skillId, session.skillName),
               SkillStep(session.teacherId, session.skillId, session.skillName)>>
        ELSE <<>>)

\* the recomputations in completeSession's try block
ScoreSteps(session) ==
    (IF session.skillId # "" /\ session.skillName # ""
     THEN <<SkillStep(session.learnerId, session.skillId, session.skillName),
            SkillStep(session.teacherId, session.skillId, session.skillName)>>
     ELSE <<>>)
    \o <<CredStep(session.learnerId), CredStep(session.teacherId)>>

CompleteSessionSteps(session) ==
    <<[op |-> "session.update", id |-> session.id], GetStep>>
    \o CreateAssignmentsSteps(session) \o ScoreSteps(session)

\* the steps inside try { } catch: their failure is logged, not thrown
CompleteSessionCaught(steps) == 3..Len(steps)

CompleteSessionOn(sessionId, userId) ==
    LET status == CompleteSessionStatus(db, sessionId, userId)
    IN IF status # OK THEN Reject("completeSession", status)
       ELSE IF db.sessions[sessionId].status = "completed"
       THEN /\ last' = Outcome("completeSession", OK, "", <<>>,
                               {db.sessions[sessionId]})
            /\ UNCHANGED <<db, failures, clock, runs>>
       ELSE LET steps == CompleteSessionSteps(db.sessions[sessionId])
            IN \E failAt \in 0..Len(steps) :
                  Call("completeSession", steps, failAt,
                       CompleteSessionCaught(steps),
                       {[db.sessions[sessionId] EXCEPT !.status = "completed"]})

CompleteSession ==
    \E sessionId \in SessionInputs, userId \in Users :
        CompleteSessionOn(sessionId, userId)

\* ------------------------------------- direct calls of the calculators
\* the pairs and users the calculators are called for directly
DirectSkillInputs == {<<"u2", "k1">>, <<"u3", "k2">>}
DirectCredInputs == Users

RecomputeSkillScore ==
    \E pair \in DirectSkillInputs :
        LET userId == pair[1]
            skillId == pair[2]
            steps == <<SkillStep(userId, skillId, SkillName(skillId))>>
        IN \E failAt \in 0..1 :
              Call("recomputeSkillScore", steps, failAt, {},
                   {SkillScoreOf(db, userId, skillId, SkillName(skillId), clock)})

RecomputeCredibilityScore ==
    \E userId \in DirectCredInputs :
        \E failAt \in 0..1 :
            Call("recomputeCredibilityScore", <<CredStep(userId)>>, failAt, {},
                 {CredibilityUpdate(db, userId, clock)})

\* ------------------------------------------------------ initial store
\* Sessions the request workflow has created: the teacher differs from the
\* learner, the status is 'scheduled', no time is set yet.
Session(id, shape, status) ==
    [id |-> id, teacherId |-> shape.teacherId, learnerId |-> shape.learnerId,
     skillId |-> shape.skillId, skillName |-> SkillName(shape.skillId),
     mode |-> shape.mode, learnerSkill |-> shape.learnerSkill,
     status |-> status, scheduledAt |-> 0]

\* earlier sessions: u1 teaching u2 skill k1, single mode
ArchiveShape ==
    [teacherId |-> "u1", learnerId |-> "u2", skillId |-> "k1",
     mode |-> "single", learnerSkill |-> ""]

ArchiveIds(n) == 101..(100 + n)
PriorIds(history) ==
    IF history = "none" THEN {}
    ELSE IF history = "thirds" THEN {99, 100}
    ELSE {100}

\* register: credibilityScore 50, no credibilityStats, an empty bio
NewUser == [credibilityScore |-> 50, credibilityStats |-> {}, bio |-> ""]

\* The store before any call: n archived sessions completed, the open session
\* `live`, and in some histories one or two more sessions (ids 99, 100) still
\* scheduled.
EmptyStore(n, live, history) ==
    [sessions |->
        [id \in LiveIds \cup ArchiveIds(n) \cup PriorIds(history) |->
            IF id \in LiveIds THEN Session(id, live[id], "scheduled")
            ELSE IF id < 101 THEN Session(id, ArchiveShape, "scheduled")
            ELSE Session(id, ArchiveShape, "completed")],
     feedback |-> EmptyColl,
     assignments |-> EmptyColl,
     skillScores |-> EmptyColl,
     userSkills |-> EmptyColl,
     requests |-> EmptyColl,
     users |-> [u \in Users |-> NewUser]]

\* the archived sessions' completions have scored both participants; their
\* assignments were never submitted (no calculator reads them, no handler
\* input names them) and are left out
Archived(n, live, history) ==
    IF n = 0 THEN EmptyStore(n, live, history)
    ELSE RunSteps(EmptyStore(n, live, history),
                  ScoreSteps(Session(101, ArchiveShape, "completed")), 0, 0)

\* session `id` was completed, its assignment submitted and graded `scores`,
\* and the teacher rated the learner `rating`
GradedPrior(d0, id, scores, rating) ==
    LET d1 == RunSteps(d0, CompleteSessionSteps(d0.sessions[id]), 0, 0)
        assignment == [d1.assignments[<<id, "u2", 0>>] EXCEPT !.submitted = TRUE]
        d2 == RunSteps(d1, <<[op |-> "assignment.submit", id |-> assignment.id]>>, 0, 0)
        d3 == RunSteps(d2, GradeAssignmentSteps(assignment, "u1",
                               RoundedFinalScore(scores)), 0, 0)
        feedback == NewFeedback(d3, d3.sessions[id], "u1", rating)
    IN RunSteps(d3, SubmitFeedbackSteps(d3.sessions[id], feedback), 0, 0)

\* history "graded": session 100 graded 4 on every question, rating 4
GradedHistory(d0) == GradedPrior(d0, 100, [q \in Questions |-> 4], 4)

\* history "thirds": sessions 99 and 100 graded 4, 4 and 5 (4.33), rating 4
ThirdsScores == [q \in Questions |-> IF q = "q3" THEN 5 ELSE 4]
ThirdsHistory(d0) ==
    GradedPrior(GradedPrior(d0, 99, ThirdsScores, 4), 100, ThirdsScores, 4)

\* history "unscored": session 100 was completed while createAssignment's
\* store call rejected (caught: nothing was scored), and the learner's
\* feedback 5 was stored while recomputeSkillScore's store call rejected
UnscoredHistory(d0) ==
    LET d1 == RunSteps(d0, CompleteSessionSteps(d0.sessions[100]), 3, 0)
        feedback == NewFeedback(d1, d1.sessions[100], "u2", 5)
    IN RunSteps(d1, SubmitFeedbackSteps(d1.sessions[100], feedback), 2, 0)

InitStore(n, live, history) ==
    IF history = "graded" THEN GradedHistory(Archived(n, live, history))
    ELSE IF history = "thirds" THEN ThirdsHistory(Archived(n, live, history))
    ELSE IF history = "unscored" THEN UnscoredHistory(Archived(n, live, history))
    ELSE Archived(n, live, history)

ShapeA == [teacherId |-> "u1", learnerId |-> "u2", skillId |-> "k1", mode |-> "single", learnerSkill |-> ""]
ShapeM == [teacherId |-> "u1", learnerId |-> "u2", skillId |-> "k1", mode |-> "mutual", learnerSkill |-> "n2"]
ShapeB == [teacherId |-> "u2", learnerId |-> "u1", skillId |-> "k2", mode |-> "single", learnerSkill |-> ""]

\* archived sessions, history, shape of the open sessions
Scenarios ==
    {<<0, "none", ShapeA>>, <<0, "none", ShapeM>>, <<0, "none", ShapeB>>,
     <<4, "none", ShapeA>>, <<4, "graded", ShapeA>>, <<14, "none", ShapeA>>,
     <<29, "none", ShapeM>>, <<0, "unscored", ShapeA>>}

\* a recomputeSkillScore call in flight: where it stands, its locals, the
\* data it started from, whether it has run alone so far, and, of the moment
\* it started, whether the stored record was stale and whether both callers
\* had just finished calls that overlapped
IdleRun ==
    [pc |-> "idle", assignmentAvg |-> RInt(0), feedbackSnapshot |-> {},
     scoreData |-> {}, seen |-> {}, alone |-> FALSE, stale |-> FALSE,
     raced |-> FALSE]

NoCall == Outcome("", OK, "", <<>>, {})

InitWith(scenarios, failed) ==
    \E sc \in scenarios :
        /\ db = InitStore(sc[1], [id \in LiveIds |-> sc[3]], sc[2])
        /\ last = NoCall
        /\ failures = failed
        /\ clock = 0
        /\ runs = [p \in Procs |-> IdleRun]

Init == InitWith(Scenarios, 0)

Next ==
    \/ SubmitFeedback
    \/ SubmitAssignment
    \/ GradeAssignment
    \/ CompleteSession

Spec == Init /\ [][Next]_vars

\* the handlers and the calculators called directly, no store call rejecting
InitApi == InitWith(Scenarios, MaxFailures)

NextApi ==
    \/ Next
    \/ RecomputeSkillScore
    \/ RecomputeCredibilityScore

SpecApi == InitApi /\ [][NextApi]_vars

\* the handlers on a store whose graded assignments average to a fraction
InitThirds == InitWith({<<4, "thirds", ShapeA>>, <<0, "thirds", ShapeA>>}, MaxFailures)

SpecThirds == InitThirds /\ [][Next]_vars

\* a teacher of four skills: u1 has taught u2 skill TopSkills[i] in counts[i]
\* sessions, all completed, and the completion of the last session of each
\* skill has scored both participants
TopSkills == <<"k1", "k2", "k3", "k4">>

RECURSIVE TopScored(_, _, _)
TopScored(d, counts, i) ==
    IF i > Len(TopSkills) THEN d
    ELSE IF counts[i] = 0 THEN TopScored(d, counts, i + 1)
    ELSE TopScored(RunSteps(d, ScoreSteps(d.sessions[200 + 10 * i + counts[i]]), 0, 0),
                   counts, i + 1)

TopStore(counts) ==
    LET ids == UNION {(200 + 10 * i + 1)..(200 + 10 * i + counts[i]) :
                         i \in DOMAIN counts}
        shape(i) == [teacherId |-> "u1", learnerId |-> "u2",
                     skillId |-> TopSkills[i], mode |-> "single",
                     learnerSkill |-> ""]
        sessions == [id \in ids |->
                        Session(id, shape((id - 200) \div 10), "completed")]
    IN TopScored([EmptyStore(0, [id \in LiveIds |-> ArchiveShape], "none")
                      EXCEPT !.sessions = sessions],
                 counts, 1)

InitTop ==
    \E counts \in [DOMAIN TopSkills -> 0..MaxTop] :
        /\ db = TopStore(counts)
        /\ last = NoCall
        /\ failures = MaxFailures
        /\ clock = 0
        /\ runs = [p \in Procs |-> IdleRun]

SpecTop == InitTop /\ [][RecomputeCredibilityScore]_vars

\* a user rated in sessions of two skills: u2 was rated 4 as the learner of
\* k1 (session 100), and the open session has u2 teaching u1 skill k2
InitSkills == InitWith({<<4, "graded", ShapeB>>}, MaxFailures)

SpecSkills == InitSkills /\ [][NextApi]_vars

\* time passes
Tick ==
    /\ clock < MaxClock
    /\ clock' = clock + 1
    /\ UNCHANGED <<db, last, failures, runs>>

InitIdem == InitWith({<<4, "graded", ShapeA>>}, MaxFailures)

NextIdem ==
    \/ Next
    \/ RecomputeSkillScore
    \/ Tick

SpecIdem == InitIdem /\ [][NextIdem]_vars

\* -------------------------- a calculator call one of whose awaits rejects
\* the store calls each calculator awaits, in order; neither has a try/catch
StoreWrites == {"skillScores.set", "users.update"}

SkillAwaitsSetFirst ==
    <<"skillScores.set", "assignments.where", "feedback.where",
      "sessions.where">>

SkillAwaits ==
    <<"assignments.where", "feedback.where", "sessions.where",
      "skillScores.set">>

CredAwaits ==
    <<"skillScores.where", "feedback.where", "sessions.learner",
      "sessions.teacher", "users.update">>

\* the write was awaited, and resolved, before await failAt rejected
WrittenBefore(awaits, failAt) ==
    \E i \in 1..(failAt - 1) : awaits[i] \in StoreWrites

\* the awaits that resolved
AwaitLog(awaits, failAt, userId) ==
    [i \in 1..(failAt - 1) |-> [op |-> awaits[i], userId |-> userId]]

RecomputeSkillScoreFailing ==
    \E pair \in DirectSkillInputs, failAt \in 1..Len(SkillAwaits) :
        /\ db' = IF WrittenBefore(SkillAwaits, failAt)
                 THEN recomputeSkillScore(db, pair[1], pair[2],
                                          SkillName(pair[2]), clock)
                 ELSE db
        /\ last' = Outcome("recomputeSkillScore", Thrown, SkillAwaits[failAt],
                           AwaitLog(SkillAwaits, failAt, pair[1]), {})
        /\ UNCHANGED <<failures, clock, runs>>

RecomputeCredibilityScoreFailing ==
    \E userId \in DirectCredInputs, failAt \in 1..Len(CredAwaits) :
        /\ db' = IF WrittenBefore(CredAwaits, failAt)
                 THEN recomputeCredibilityScore(db, userId, clock)
                 ELSE db
        /\ last' = Outcome("recomputeCredibilityScore", Thrown,
                           CredAwaits[failAt],
                           AwaitLog(CredAwaits, failAt, userId), {})
        /\ UNCHANGED <<failures, clock, runs>>

InitFail == InitWith({<<4, "graded", ShapeA>>}, 0)

NextFail ==
    \/ Next
    \/ RecomputeSkillScore
    \/ RecomputeCredibilityScore
    \/ RecomputeSkillScoreFailing
    \/ RecomputeCredibilityScoreFailing

SpecFail == InitFail /\ [][NextFail]_vars

\* ---------------------------------------------------- scheduleSession
ScheduleSessionStatus(d, sessionId, userId) ==
    IF sessionId \notin DOMAIN d.sessions THEN "404"
    ELSE IF d.sessions[sessionId].teacherId # userId THEN "403"
    ELSE IF d.sessions[sessionId].status # "scheduled" THEN "400"
    ELSE OK

\* the times a teacher picks (a session without one has scheduledAt 0: null)
TimeInputs == {1, 2}

ScheduleSession ==
    \E sessionId \in SessionInputs, userId \in Users, scheduledAt \in TimeInputs :
        LET status == ScheduleSessionStatus(db, sessionId, userId)
        IN IF status # OK THEN Reject("scheduleSession", status)
           ELSE LET steps == <<[op |-> "session.schedule", id |-> sessionId,
                                scheduledAt |-> scheduledAt], GetStep>>
                IN \E failAt \in 0..Len(steps) :
                      Call("scheduleSession", steps, failAt, {},
                           {[db.sessions[sessionId] EXCEPT
                                !.scheduledAt = scheduledAt]})

\* ----------------------------------------------- getCredibility (view)
\* A value that may be null is a set with at most one element.
DefaultResponse ==
    [credibilityScore |-> 0, sessionsCompleted |-> 0, studentsCount |-> 0,
     teachingHours |-> 0, avgRating |-> 0,
     ratingBreakdown |-> [r \in 1..5 |-> 0],
     skillsTaughtCount |-> 0, skillsLearnedCount |-> 0, totalReviews |-> 0,
     upcomingSessions |-> <<>>,
     stats |-> [avgSkillScore |-> 0, avgTeachingRating |-> 0,
                sessionCount |-> 0, consistencyBonus |-> 0]]

\* the store reads of getCredibility, in the order they are awaited
ViewReads ==
    <<"users.get", "userSkills.teach", "userSkills.learn", "feedback.to",
      "sessions.teacher", "sessions.learner",
      "sessions.upcomingAsTeacher", "sessions.upcomingAsLearner">>

\* the reads inside the inner try (the upcoming sessions)
InnerTry == {7, 8}

OuterTryFrom2 == {i \in 1..Len(ViewReads) : i >= 2}

\* the reads inside the outer try
OuterTry == {i \in 1..Len(ViewReads) : i >= 1}

\* x ?? y
Coalesce(x, y) == IF x = {} THEN y ELSE CHOOSE v \in x : TRUE

\* userSkills where userId == , type ==  (the records getOrCreateUserSkill
\* makes have no type)
SkillsOfType(userSkills, userId, type) ==
    {k \in Docs(userSkills) :
        k.userId = userId /\ "type" \in DOMAIN k /\ k.type = type}

RECURSIVE OrderByScheduledAt(_)
\* orderBy('scheduledAt', 'asc'): null first, equal times by document id
OrderByScheduledAt(S) ==
    IF S = {} THEN <<>>
    ELSE LET first == CHOOSE x \in S : \A y \in S :
                          \/ x.scheduledAt < y.scheduledAt
                          \/ x.scheduledAt = y.scheduledAt /\ x.id <= y.id
         IN <<first>> \o OrderByScheduledAt(S \ {first})

\* .limit(n), .slice(0, n)
Take(seq, n) == SubSeq(seq, 1, Min(Len(seq), n))

\* where teacherId / learnerId == , status == 'scheduled', ordered, limit 5
UpcomingAs(sessions, userId, role) ==
    Take(OrderByScheduledAt(
             {x \in Docs(sessions) :
                 /\ x.status = "scheduled"
                 /\ IF role = "teacher" THEN x.teacherId = userId
                                        ELSE x.learnerId = userId}), 5)

\* the entry pushed for a session: dateTime is s.scheduledAt || null
UpcomingEntry(x, role) ==
    [id |-> x.id,
     skill |-> IF x.skillName = "" THEN "Session" ELSE x.skillName,
     teacher |-> IF role = "teacher" THEN "You" ELSE "Teacher",
     learner |-> IF role = "teacher" THEN "Learner" ELSE "You",
     dateTime |-> IF x.scheduledAt = 0 THEN {} ELSE {x.scheduledAt},
     status |-> x.status,
     role |-> role]

EntriesOf(seq, role) == [i \in 1..Len(seq) |-> UpcomingEntry(seq[i], role)]

RECURSIVE SortByDateTime(_)
\* upcomingSessions.sort(...): entries without a dateTime last, the others by
\* time, equal ones in the order they were pushed
SortByDateTime(entries) ==
    IF entries = <<>> THEN <<>>
    ELSE LET dated == {i \in 1..Len(entries) : entries[i].dateTime # {}}
             pool == IF dated = {} THEN 1..Len(entries) ELSE dated
             key(i) == Coalesce(entries[i].dateTime, 0)
             i0 == CHOOSE i \in pool : \A j \in pool :
                       key(i) < key(j) \/ (key(i) = key(j) /\ i <= j)
         IN <<entries[i0]>>
            \o SortByDateTime([j \in 1..(Len(entries) - 1) |->
                                  IF j < i0 THEN entries[j] ELSE entries[j + 1]])

UpcomingSessions(sessions, userId) ==
    Take(SortByDateTime(
             EntriesOf(UpcomingAs(sessions, userId, "teacher"), "teacher")
             \o EntriesOf(UpcomingAs(sessions, userId, "learner"), "learner")), 3)

\* the response built when the reads before the upcoming sessions succeeded
CredibilityView(d, userId, upcomingSessions) ==
    LET data == d.users[userId]
        feedbackSnapshot == FeedbackTo(d.feedback, userId)
        totalFeedback == Cardinality(feedbackSnapshot)
        totalRating == SumOver(feedbackSnapshot,
                               [f \in feedbackSnapshot |-> f.rating])
        teacherSessions == TeacherSessions(d.sessions, userId)
        learnerSessions == LearnerSessions(d.sessions, userId)
        sessionsCompleted ==
            Cardinality(teacherSessions) + Cardinality(learnerSessions)
    IN [credibilityScore |-> data.credibilityScore,
        sessionsCompleted |-> sessionsCompleted,
        studentsCount |-> Cardinality({x.learnerId : x \in teacherSessions}),
        teachingHours |-> Cardinality(teacherSessions),
        \* Math.round(avgRating * 10) / 10, in tenths
        avgRating |-> IF totalFeedback = 0 THEN 0
                      ELSE Round(Rat(10 * totalRating, totalFeedback)),
        ratingBreakdown |->
            [r \in 1..5 |->
                IF totalFeedback = 0 THEN 0
                ELSE Round(Rat(100 * Cardinality({f \in feedbackSnapshot :
                                                     f.rating = r}),
                               totalFeedback))],
        skillsTaughtCount |->
            Cardinality(SkillsOfType(d.userSkills, userId, "teach")),
        skillsLearnedCount |->
            Cardinality(SkillsOfType(d.userSkills, userId, "learn")),
        totalReviews |-> totalFeedback,
        upcomingSessions |-> upcomingSessions,
        stats |->
            [avgSkillScore |->
                 Coalesce({st.avgSkillScore : st \in data.credibilityStats}, 0),
             avgTeachingRating |->
                 Coalesce({st.avgTeachingRating : st \in data.credibilityStats}, 0),
             sessionCount |-> sessionsCompleted,
             consistencyBonus |->
                 Coalesce({st.consistencyBonus : st \in data.credibilityStats}, 0)]]

\* getCredibility when read failAt rejects (0: none does); a rejection of an
\* upcoming sessions query is an index error or not, and after an index error
\* the fallback queries reject or not
getCredibility(d, userId, failAt, indexError, fallbackFails) ==
    IF failAt = 1 \/ (failAt = 0 /\ userId \notin DOMAIN d.users)
    THEN DefaultResponse
    ELSE IF userId \notin DOMAIN d.users \/ failAt \notin InnerTry \cup {0}
    THEN DefaultResponse
    ELSE IF failAt = 0 \/ (indexError /\ ~fallbackFails)
    THEN CredibilityView(d, userId, UpcomingSessions(d.sessions, userId))
    ELSE CredibilityView(d, userId, <<>>)

\* the reads that completed
ViewLog(d, userId, failAt) ==
    LET n == IF failAt # 0 THEN failAt - 1
             ELSE IF userId \notin DOMAIN d.users THEN 1
             ELSE Len(ViewReads)
    IN [i \in 1..n |-> [op |-> ViewReads[i], userId |-> userId]]

ViewUsers == Users \cup {"nobody"}

GetCredibility ==
    \E userId \in ViewUsers, failAt \in 0..Len(ViewReads) :
        \E indexError \in BOOLEAN, fallbackFails \in BOOLEAN :
            /\ failAt > 1 => userId \in DOMAIN db.users
            /\ failAt \notin InnerTry => ~indexError
            /\ ~indexError => ~fallbackFails
            /\ last' = [op |-> "getCredibility",
                        status |-> IF failAt = 0 \/ failAt \in OuterTry
                                   THEN OK ELSE Thrown,
                        failed |-> IF failAt = 0 THEN "" ELSE ViewReads[failAt],
                        log |-> ViewLog(db, userId, failAt),
                        value |-> IF failAt = 0 \/ failAt \in OuterTry
                                  THEN {getCredibility(db, userId, failAt,
                                                       indexError, fallbackFails)}
                                  ELSE {},
                        before |-> {}]
            /\ UNCHANGED <<db, failures, clock, runs>>

InitView ==
    InitWith({<<0, "none", ShapeA>>, <<4, "graded", ShapeA>>}, MaxFailures)

NextView ==
    \/ Next
    \/ ScheduleSession
    \/ GetCredibility

SpecView == InitView /\ [][NextView]_vars

\* ---------------------------- recomputeSkillScore calls that interleave
\* Two callers run recomputeSkillScore(ConcUser, ConcSkill, ...) await by
\* await: the assignments query, the feedback query, the sessions query and
\* the set(); between their steps the handlers change the data.
ConcUser == "u2"
ConcSkill == "k1"

Data(d) ==
    [assignments |-> d.assignments, feedback |-> d.feedback,
     sessions |-> d.sessions]

\* the stored record is what a from-scratch computation on d gives
Fresh(d) ==
    /\ <<ConcUser, ConcSkill>> \in DOMAIN d.skillScores
    /\ Unstamped(d.skillScores[<<ConcUser, ConcSkill>>])
          = Unstamped(SkillScoreOf(d, ConcUser, ConcSkill, SkillName(ConcSkill), 0))

\* p's step: no other call has run alone any longer
Step(p, run) ==
    /\ runs' = [q \in Procs |->
                   IF q = p THEN run ELSE [runs[q] EXCEPT !.alone = FALSE]]
    /\ UNCHANGED <<last, failures, clock>>

ReadAssignments(p) ==
    /\ runs[p].pc \in {"idle", "done"}
    /\ Step(p, [IdleRun EXCEPT
                  !.pc = "feedback",
                  !.assignmentAvg =
                      AssignmentAvg(GradedAssignments(db.assignments,
                                                      ConcUser, ConcSkill)),
                  !.seen = {Data(db)},
                  !.alone = \A q \in Procs \ {p} :
                                runs[q].pc \in {"idle", "done"},
                  !.stale = ~Fresh(db),
                  !.raced = \A q \in Procs :
                                runs[q].pc = "done" /\ ~runs[q].alone])
    /\ UNCHANGED db

ReadFeedback(p) ==
    /\ runs[p].pc = "feedback"
    /\ Step(p, [runs[p] EXCEPT
                  !.pc = "sessions",
                  !.feedbackSnapshot = FeedbackTo(db.feedback, ConcUser)])
    /\ UNCHANGED db

ReadSessions(p) ==
    /\ runs[p].pc = "sessions"
    /\ Step(p, [runs[p] EXCEPT
                  !.pc = "write",
                  !.assignmentAvg = RInt(0),
                  !.feedbackSnapshot = {},
                  !.scoreData =
                      {ScoreData(ConcUser, ConcSkill, SkillName(ConcSkill),
                                 runs[p].assignmentAvg,
                                 runs[p].feedbackSnapshot, db.sessions, clock)}])
    /\ UNCHANGED db

SetScore(p) ==
    /\ runs[p].pc = "write"
    /\ \E scoreData \in runs[p].scoreData :
          db' = [db EXCEPT !.skillScores = WriteSkillScore(@, scoreData)]
    /\ Step(p, [runs[p] EXCEPT !.pc = "done", !.scoreData = {}])

\* the handler calls that change the pair's data meanwhile
ConcLive == CHOOSE id \in LiveIds : TRUE
ConcAssignment == <<ConcLive, ConcUser, 0>>

DataChange ==
    /\ \/ CompleteSessionOn(ConcLive, "u1")
       \/ SubmitFeedbackOn(ConcLive, "u1", 5)
       \/ SubmitAssignmentOn(ConcAssignment, ConcUser)
       \/ GradeAssignmentOn(ConcAssignment, "u1", [q \in Questions |-> 5])
    /\ last'.log # <<>>

InitConc == InitWith({<<4, "graded", ShapeA>>}, MaxFailures)

NextConc ==
    \/ DataChange
    \/ \E p \in Procs : ReadAssignments(p)
    \/ \E p \in Procs : ReadFeedback(p)
    \/ \E p \in Procs : ReadSessions(p)
    \/ \E p \in Procs : SetScore(p)

SpecConc == InitConc /\ [][NextConc]_vars

\* ------------------------------ submitFeedback calls that interleave
\* a submitFeedback call between two of its awaits: where it stands and its
\* locals
IdleCall ==
    [pc |-> "idle", userId |-> "", rating |-> 0, session |-> {}, feedback |-> {}]

\* one await of submitFeedback(ConcLive, userId, {rating}) in caller p
SubmitFeedbackAwait(p) ==
    \/ \* sessions.doc(sessionId).get(), after the rating check, and the
       \* guards on the session's data
       /\ runs[p].pc = "idle"
       /\ \E userId \in {"u1", "u2"}, rating \in {5} :
             LET status == SubmitFeedbackStatus([db EXCEPT !.feedback = EmptyColl],
                                                ConcLive, userId, rating)
             IN IF status # OK
                THEN /\ last' = Outcome("submitFeedback", status, "", <<>>, {})
                     /\ UNCHANGED runs
                ELSE /\ runs' = [runs EXCEPT ![p] =
                                    [IdleCall EXCEPT
                                        !.pc = "existing", !.userId = userId,
                                        !.rating = rating,
                                        !.session = {db.sessions[ConcLive]}]]
                     /\ UNCHANGED last
       /\ UNCHANGED <<db, failures, clock>>
    \/ \* the existingFeedback query
       /\ runs[p].pc = "existing"
       /\ IF ExistingFeedback(db.feedback, ConcLive, runs[p].userId) # {}
          THEN /\ last' = Outcome("submitFeedback", "409", "", <<>>, {})
               /\ runs' = [runs EXCEPT ![p] = IdleCall]
          ELSE /\ runs' = [runs EXCEPT ![p].pc = "set"]
               /\ UNCHANGED last
       /\ UNCHANGED <<db, failures, clock>>
    \/ \* feedback.doc(feedbackId).set(feedback)
       /\ runs[p].pc = "set"
       /\ \E session \in runs[p].session :
             LET feedback == NewFeedback(db, session, runs[p].userId,
                                         runs[p].rating)
             IN /\ db' = Apply(db, [op |-> "feedback.set", doc |-> feedback], clock)
                /\ runs' = [runs EXCEPT ![p].pc = "scores",
                                        ![p].feedback = {feedback}]
       /\ UNCHANGED <<last, failures, clock>>
    \/ \* recomputeSkillScore and recomputeCredibilityScore for the recipient
       /\ runs[p].pc = "scores"
       /\ \E session \in runs[p].session, feedback \in runs[p].feedback :
             LET steps == SubmitFeedbackSteps(session, feedback)
             IN /\ db' = RunSteps(db, Tail(steps), 0, clock)
                /\ last' = Outcome("submitFeedback", OK, "", steps, {feedback})
       /\ runs' = [runs EXCEPT ![p] = IdleCall]
       /\ UNCHANGED <<failures, clock>>

\* one open session, completed by its teacher before any feedback
InitFeedback ==
    /\ \E shape \in {ShapeA, ShapeB} :
          db = InitStore(0, [id \in LiveIds |-> shape], "none")
    /\ last = NoCall
    /\ failures = MaxFailures
    /\ clock = 0
    /\ runs = [p \in Procs |-> IdleCall]

NextFeedback ==
    \/ (CompleteSession /\ UNCHANGED runs)
    \/ \E p \in Procs : SubmitFeedbackAwait(p)

SpecFeedback == InitFeedback /\ [][NextFeedback]_vars

\* ------------------------------------------- the request workflow
\* addSkill's documents: u1 lists k1 and u2 lists k2 as skills they teach
\* (the document id is the skill id)
Listings ==
    [id \in {<<"", "k1">>, <<"", "k2">>} |->
        [id |-> id, userId |-> IF id[2] = "k1" THEN "u1" ELSE "u2",
         skillName |-> SkillName(id[2]), type |-> "teach"]]

\* uuidv4() for a session document
FreshSessionId(sessions) ==
    CHOOSE id \in 301..(301 + Cardinality(DOMAIN sessions)) :
        id \notin DOMAIN sessions

SendRequestStatusAnyone(d, fromUserId, teacherId, skillId) ==
    IF fromUserId \notin DOMAIN d.users THEN "404"
    ELSE IF teacherId \notin DOMAIN d.users THEN "404"
    ELSE IF <<"", skillId>> \notin DOMAIN d.userSkills THEN "404"
    ELSE IF \E r \in Docs(d.requests) :
                /\ r.fromUserId = fromUserId /\ r.toUserId = teacherId
                /\ r.skillId = skillId /\ r.status = "pending" THEN "400"
    ELSE OK

SendRequestStatus(d, fromUserId, teacherId, skillId) ==
    IF fromUserId \notin DOMAIN d.users THEN "404"
    ELSE IF teacherId \notin DOMAIN d.users THEN "404"
    ELSE IF <<"", skillId>> \notin DOMAIN d.userSkills THEN "404"
    ELSE IF fromUserId = teacherId THEN "400"
    ELSE IF \E r \in Docs(d.requests) :
                /\ r.fromUserId = fromUserId /\ r.toUserId = teacherId
                /\ r.skillId = skillId /\ r.status = "pending" THEN "400"
    ELSE OK

SendRequest ==
    \E fromUserId \in {"u1", "u2"}, teacherId \in {"u1", "u2"}, skillId \in {"k1", "k0"} :
        LET status == SendRequestStatus(db, fromUserId, teacherId, skillId)
            requestId == Cardinality(DOMAIN db.requests) + 1
            request ==
                [id |-> requestId, fromUserId |-> fromUserId,
                 toUserId |-> teacherId, skillId |-> skillId,
                 skillName |-> db.userSkills[<<"", skillId>>].skillName,
                 status |-> "pending", mode |-> "", learnerSkill |-> "",
                 confirmed |-> FALSE]
        IN IF status # OK THEN Reject("sendRequest", status)
           ELSE /\ requestId <= MaxRequests
                /\ db' = [db EXCEPT !.requests = Put(@, requestId, request)]
                /\ last' = Outcome("sendRequest", OK, "", <<>>, {request})
                /\ UNCHANGED <<failures, clock, runs>>

\* the transaction: the request becomes 'accepted' and its session is set
AcceptRequest ==
    \E requestId \in 1..MaxRequests, userId \in Users :
        LET status ==
                IF requestId \notin DOMAIN db.requests THEN "404"
                ELSE IF db.requests[requestId].toUserId # userId THEN "403"
                ELSE IF db.requests[requestId].status # "pending" THEN "400"
                ELSE OK
            request == db.requests[requestId]
            existingSession ==
                {x \in Docs(db.sessions) :
                    "requestId" \in DOMAIN x /\ x.requestId = requestId}
            sessionId == FreshSessionId(db.sessions)
            session ==
                [id |-> sessionId, requestId |-> requestId,
                 skillId |-> request.skillId, skillName |-> request.skillName,
                 teacherId |-> request.toUserId,
                 learnerId |-> request.fromUserId,
                 status |-> "scheduled", scheduledAt |-> 0,
                 mode |-> "single", learnerSkill |-> ""]
        IN IF status # OK THEN Reject("acceptRequest", status)
           ELSE IF existingSession # {}
           THEN /\ last' = Outcome("acceptRequest", OK, "", <<>>, existingSession)
                /\ UNCHANGED <<db, failures, clock, runs>>
           ELSE /\ db' = [db EXCEPT !.requests[requestId].status = "accepted",
                                    !.sessions = Put(@, sessionId, session)]
                /\ last' = Outcome("acceptRequest", OK, "", <<>>, {session})
                /\ UNCHANGED <<failures, clock, runs>>

\* sessionService.createSession(request)
createSession(d, request) ==
    [d EXCEPT !.sessions =
        Put(@, FreshSessionId(d.sessions),
            [id |-> FreshSessionId(d.sessions),
             mode |-> IF request.mode = "" THEN "single" ELSE request.mode,
             teacherId |-> request.toUserId, learnerId |-> request.fromUserId,
             learnerSkill |-> request.learnerSkill,
             skillId |-> request.skillId, skillName |-> request.skillName,
             scheduledAt |-> 0, status |-> "scheduled"])]

ConfirmRequestStatus(d, requestId, userId, mode, learnerSkill) ==
    IF mode = "" THEN "400"
    ELSE IF requestId \notin DOMAIN d.requests THEN "404"
    ELSE LET request == d.requests[requestId]
             otherUserId == IF request.fromUserId = userId
                            THEN request.toUserId ELSE request.fromUserId
             validSkills ==
                 {k.skillName : k \in SkillsOfType(d.userSkills, otherUserId, "teach")}
         IN IF request.fromUserId # userId /\ request.toUserId # userId THEN "403"
            ELSE IF request.status # "accepted" THEN "400"
            ELSE IF request.confirmed THEN "400"
            ELSE IF mode \notin {"single", "mutual"} THEN "400"
            ELSE IF mode = "mutual" /\ learnerSkill = "" THEN "400"
            ELSE IF mode = "mutual" /\ learnerSkill \notin validSkills THEN "400"
            ELSE OK

\* the controller: confirmRequest, then createSession of the updated request
ConfirmRequest ==
    \E requestId \in 1..MaxRequests, userId \in Users, mode \in {"single", "mutual", "solo"}, learnerSkill \in {"", "n2"} :
        LET status == ConfirmRequestStatus(db, requestId, userId, mode, learnerSkill)
            request ==
                [db.requests[requestId] EXCEPT
                    !.mode = mode,
                    !.learnerSkill = IF mode = "mutual" THEN learnerSkill ELSE "",
                    !.confirmed = TRUE]
        IN IF status # OK THEN Reject("confirmRequest", status)
           ELSE /\ db' = createSession([db EXCEPT !.requests[requestId] = request],
                                       request)
                /\ last' = Outcome("confirmRequest", OK, "", <<>>, {request})
                /\ UNCHANGED <<failures, clock, runs>>

\* completeSession on any session of the store
CompleteAnySession ==
    \E sessionId \in DOMAIN db.sessions, userId \in Users :
        CompleteSessionOn(sessionId, userId)

\* ---------------------------------------------------- updateUserProfile
ProfileInputs ==
    {[bio |-> "b"], [bio |-> "b", credibilityScore |-> 99]}

updateUserProfileUnfiltered(d, userId, updates) ==
    [d EXCEPT !.users[userId] =
        [key \in DOMAIN @ |->
            IF key \in DOMAIN updates THEN updates[key] ELSE @[key]]]

\* userRef.update(filteredUpdates): of the updates, name, bio and avatar only
updateUserProfile(d, userId, updates) ==
    [d EXCEPT !.users[userId] =
        [key \in DOMAIN @ |->
            IF key \in DOMAIN updates /\ key \in {"name", "bio", "avatar"}
            THEN updates[key] ELSE @[key]]]

UpdateUserProfile ==
    \E userId \in {"u3", "u0"}, updates \in ProfileInputs :
        IF userId \notin DOMAIN db.users
        THEN Reject("updateUserProfile", "404")
        ELSE /\ db' = updateUserProfile(db, userId, updates)
             /\ last' = Outcome("updateUserProfile", OK, "",
                                <<[op |-> "users.update", userId |-> userId,
                                   updates |-> updates]>>,
                                {updateUserProfile(db, userId, updates).users[userId]})
             /\ UNCHANGED <<failures, clock, runs>>

\* a store with the two listings and no session yet
InitReq ==
    /\ db = [EmptyStore(0, [id \in LiveIds |-> ArchiveShape], "none")
                EXCEPT !.userSkills = Listings, !.sessions = EmptyColl]
    /\ last = NoCall
    /\ failures = MaxFailures
    /\ clock = 0
    /\ runs = [p \in Procs |-> IdleRun]

NextReq ==
    \/ SendRequest
    \/ AcceptRequest
    \/ ConfirmRequest
    \/ CompleteAnySession
    \/ UpdateUserProfile

SpecReq == InitReq /\ [][NextReq]_vars

\* --------------------- the handlers one at a time, no store call failing
\* stores in which every earlier handler has run to its end
InitSeq ==
    InitWith({<<0, "none", ShapeM>>, <<0, "none", ShapeB>>,
              <<4, "none", ShapeA>>, <<4, "graded", ShapeA>>}, MaxFailures)

SpecSeq == InitSeq /\ [][Next]_vars

\* --------------------------------- interleaved rejectRequest, cancelRequest
\* a caller that is not inside rejectRequest or cancelRequest
IdleRequestCall == [pc |-> "idle", requestId |-> 0, userId |-> ""]

RejectRequestStatus(d, requestId, userId) ==
    IF requestId \notin DOMAIN d.requests THEN "404"
    ELSE IF d.requests[requestId].toUserId # userId THEN "403"
    ELSE IF d.requests[requestId].status # "pending" THEN "400"
    ELSE OK

CancelRequestStatus(d, requestId, userId) ==
    IF requestId \notin DOMAIN d.requests THEN "404"
    ELSE IF d.requests[requestId].fromUserId # userId THEN "403"
    ELSE IF d.requests[requestId].status # "pending" THEN "400"
    ELSE OK

\* requestRef.update({status: 'rejected'}), from the checks of an earlier
\* read: update() of a document that is gone throws
rejectRequestUpdate(d, requestId) ==
    [d EXCEPT !.requests[requestId].status = "rejected"]

\* requestRef.delete(), from the checks of an earlier read
cancelRequestDelete(d, requestId) ==
    [d EXCEPT !.requests =
        [id \in DOMAIN @ \ {requestId} |-> @[id]]]

\* one await of rejectRequest(requestId, userId) in caller p
RejectRequestAwait(p) ==
    \/ /\ runs[p].pc = "idle"
       /\ \E requestId \in 1..MaxRequests, userId \in {"u1", "u2"} :
            LET status == RejectRequestStatus(db, requestId, userId)
            IN IF status # OK
               THEN /\ last' = Outcome("rejectRequest", status, "", <<>>, {})
                    /\ UNCHANGED <<db, runs>>
               ELSE /\ runs' = [runs EXCEPT ![p] =
                            [pc |-> "update", requestId |-> requestId,
                             userId |-> userId]]
                    /\ UNCHANGED <<db, last>>
       /\ UNCHANGED <<failures, clock>>
    \/ /\ runs[p].pc = "update"
       /\ IF runs[p].requestId \in DOMAIN db.requests
          THEN /\ db' = rejectRequestUpdate(db, runs[p].requestId)
               /\ last' = Outcome("rejectRequest", OK, "", <<>>,
                                  {db.requests[runs[p].requestId]})
          ELSE /\ last' = Outcome("rejectRequest", Thrown, "requests.update", <<>>, {})
               /\ UNCHANGED db
       /\ runs' = [runs EXCEPT ![p] = IdleRequestCall]
       /\ UNCHANGED <<failures, clock>>

\* one await of cancelRequest(requestId, userId) in caller p
CancelRequestAwait(p) ==
    \/ /\ runs[p].pc = "idle"
       /\ \E requestId \in 1..MaxRequests, userId \in {"u1", "u2"} :
            LET status == CancelRequestStatus(db, requestId, userId)
            IN IF status # OK
               THEN /\ last' = Outcome("cancelRequest", status, "", <<>>, {})
                    /\ UNCHANGED <<db, runs>>
               ELSE /\ runs' = [runs EXCEPT ![p] =
                            [pc |-> "delete", requestId |-> requestId,
                             userId |-> userId]]
                    /\ UNCHANGED <<db, last>>
       /\ UNCHANGED <<failures, clock>>
    \/ /\ runs[p].pc = "delete"
       /\ db' = cancelRequestDelete(db, runs[p].requestId)
       /\ last' = Outcome("cancelRequest", OK, "", <<>>, {})
       /\ runs' = [runs EXCEPT ![p] = IdleRequestCall]
       /\ UNCHANGED <<failures, clock>>

\* u2 has asked u1 for k1 and u1 has asked u2 for k2: both requests pending
PendingRequests ==
    [id \in 1..MaxRequests |->
        [id |-> id,
         fromUserId |-> IF id = 1 THEN "u2" ELSE "u1",
         toUserId |-> IF id = 1 THEN "u1" ELSE "u2",
         skillId |-> IF id = 1 THEN "k1" ELSE "k2",
         skillName |-> SkillName(IF id = 1 THEN "k1" ELSE "k2"),
         status |-> "pending", mode |-> "", learnerSkill |-> "",
         confirmed |-> FALSE]]

InitLife ==
    /\ db = [EmptyStore(0, [id \in LiveIds |-> ArchiveShape], "none")
                EXCEPT !.userSkills = Listings, !.sessions = EmptyColl,
                       !.requests = PendingRequests]
    /\ last = NoCall
    /\ failures = MaxFailures
    /\ clock = 0
    /\ runs = [p \in Procs |-> IdleRequestCall]

NextLife ==
    \/ AcceptRequest
    \/ ConfirmRequest
    \/ \E p \in Procs : RejectRequestAwait(p)
    \/ \E p \in Procs : CancelRequestAwait(p)

SpecLife == InitLife /\ [][NextLife]_vars

\* ------------------- interleaved completeSession and joinSession
\* a caller that is not inside completeSession or joinSession
IdleSessionCall == [pc |-> "idle", session |-> {}, todo |-> <<>>]

\* one await of completeSession(sessionId, userId) in caller p: the read and
\* its checks, the update with the read that follows it, each
\* createAssignment's query and its set, and the recomputations
CompleteSessionAwait(p) ==
    LET session == CHOOSE x \in runs[p].session : TRUE
        step == Head(runs[p].todo)
        rest == [runs[p] EXCEPT
                    !.todo = Tail(@),
                    !.pc = IF Tail(runs[p].todo) = <<>> THEN "scores" ELSE "query"]
    IN
    \/ /\ runs[p].pc = "idle"
       /\ \E sessionId \in SessionInputs, userId \in Users :
            LET status == CompleteSessionStatus(db, sessionId, userId)
            IN IF status # OK
               THEN /\ last' = Outcome("completeSession", status, "", <<>>, {})
                    /\ UNCHANGED <<db, runs>>
               ELSE IF db.sessions[sessionId].status = "completed"
               THEN /\ last' = Outcome("completeSession", OK, "", <<>>,
                                       {db.sessions[sessionId]})
                    /\ UNCHANGED <<db, runs>>
               ELSE /\ runs' = [runs EXCEPT ![p] =
                            [pc |-> "update", session |-> {db.sessions[sessionId]},
                             todo |-> <<>>]]
                    /\ UNCHANGED <<db, last>>
       /\ UNCHANGED <<failures, clock>>
    \/ /\ runs[p].pc = "update"
       /\ db' = Apply(db, [op |-> "session.update", id |-> session.id], clock)
       /\ runs' = [runs EXCEPT ![p] =
                    [pc |-> "query", session |-> {db'.sessions[session.id]},
                     todo |-> CreateAssignmentsSteps(db'.sessions[session.id])]]
       /\ UNCHANGED <<last, failures, clock>>
    \/ /\ runs[p].pc = "query"
       /\ runs' = [runs EXCEPT ![p] =
                    IF ExistingAssignments(db.assignments, step.sessionId, step.userId) # {}
                    THEN rest ELSE [runs[p] EXCEPT !.pc = "set"]]
       /\ UNCHANGED <<db, last, failures, clock>>
    \/ /\ runs[p].pc = "set"
       /\ db' = setAssignment(db, step.sessionId, step.userId, step.skillId,
                              step.skillName)
       /\ runs' = [runs EXCEPT ![p] = rest]
       /\ UNCHANGED <<last, failures, clock>>
    \/ /\ runs[p].pc = "scores"
       /\ db' = RunSteps(db, ScoreSteps(session), 0, clock)
       /\ last' = Outcome("completeSession", OK, "", CompleteSessionSteps(session),
                          {session})
       /\ runs' = [runs EXCEPT ![p] = IdleSessionCall]
       /\ UNCHANGED <<failures, clock>>

\* the controller's checks; a session has its meetingUrl from scheduleSession
JoinSessionStatus(d, sessionId, userId) ==
    IF sessionId \notin DOMAIN d.sessions THEN "404"
    ELSE IF d.sessions[sessionId].teacherId # userId
            /\ d.sessions[sessionId].learnerId # userId THEN "403"
    ELSE IF d.sessions[sessionId].scheduledAt = 0 THEN "400"
    ELSE OK

\* one await of joinSession in caller p: getSessionById with the checks,
\* then the update of a session that was read as 'scheduled'
JoinSessionAwait(p) ==
    LET session == CHOOSE x \in runs[p].session : TRUE
    IN
    \/ /\ runs[p].pc = "idle"
       /\ \E sessionId \in SessionInputs, userId \in Users :
            LET status == JoinSessionStatus(db, sessionId, userId)
            IN IF status # OK
               THEN /\ last' = Outcome("joinSession", status, "", <<>>, {})
                    /\ UNCHANGED <<db, runs>>
               ELSE IF db.sessions[sessionId].status # "scheduled"
               THEN /\ last' = Outcome("joinSession", OK, "", <<>>,
                                       {db.sessions[sessionId]})
                    /\ UNCHANGED <<db, runs>>
               ELSE /\ runs' = [runs EXCEPT ![p] =
                            [pc |-> "join", session |-> {db.sessions[sessionId]},
                             todo |-> <<>>]]
                    /\ UNCHANGED <<db, last>>
       /\ UNCHANGED <<failures, clock>>
    \/ /\ runs[p].pc = "join"
       /\ db' = [db EXCEPT !.sessions[session.id].status = "ongoing"]
       /\ last' = Outcome("joinSession", OK, "", <<>>,
                          {[session EXCEPT !.status = "ongoing"]})
       /\ runs' = [runs EXCEPT ![p] = IdleSessionCall]
       /\ UNCHANGED <<failures, clock>>

\* the statuses of the session schema a stored session starts with
StatusInputs == {"scheduled", "cancelled"}

InitLive ==
    \E shape \in {ShapeA, ShapeM}, status \in StatusInputs :
        /\ db = [InitStore(0, [id \in LiveIds |-> shape], "none")
                    EXCEPT !.sessions[1].status = status]
        /\ last = NoCall
        /\ failures = MaxFailures
        /\ clock = 0
        /\ runs = [p \in Procs |-> IdleSessionCall]

NextLive ==
    \/ ScheduleSession
    \/ \E p \in Procs : CompleteSessionAwait(p)
    \/ \E p \in Procs : JoinSessionAwait(p)

SpecLive == InitLive /\ [][NextLive]_vars

\* ---------------------------------------------------------- properties
Triggers == {"submitFeedback", "gradeAssignment", "completeSession"}
RecomputeOps == {"recomputeSkillScore", "recomputeCredibilityScore"}

\* the last call ran recomputeSkillScore(userId, skillId, ...) to its end
SkillDone(userId, skillId) ==
    \E i \in 1..Len(last.log) :
        /\ last.log[i].op = "recomputeSkillScore"
        /\ last.log[i].userId = userId
        /\ last.log[i].skillId = skillId

\* the last call ran recomputeCredibilityScore(userId) to its end
CredDone(userId) ==
    \E i \in 1..Len(last.log) :
        /\ last.log[i].op = "recomputeCredibilityScore"
        /\ last.log[i].userId = userId

\* r is q rounded to the nearest integer, halves upwards
IsRound(r, q) == 2 * r * q.d - q.d <= 2 * q.n /\ 2 * q.n < 2 * r * q.d + q.d

IntClamp(x) == Min(Max(x, 0), 100)

\* completed sessions as teacher plus completed sessions as learner
C9_Count(u) ==
    Cardinality({s \in Docs(db.sessions) :
                    s.status = "completed" /\ s.teacherId = u})
      + Cardinality({s \in Docs(db.sessions) :
                        s.status = "completed" /\ s.learnerId = u})

C9_Bonus(count) ==
    CASE count < 5 -> 0
      [] count \in 5..14 -> 2
      [] count \in 15..29 -> 5
      [] OTHER -> 10

\* C1: after any sequence of feedback submissions, gradings and completions,
\* every persisted SkillScore record has an integer finalScore in 0..100.
C1_FinalScoreInRange ==
    \A id \in DOMAIN db.skillScores : db.skillScores[id].finalScore \in 0..100

\* C2: every credibilityScore that recomputeCredibilityScore persists is an
\* integer in 0..100 and equals clamp(round(base + consistencyBonus), 0, 100);
\* 100, 100 and bonus 10 are stored as 100.
C2_CredibilityClamped ==
    /\ \A u \in Users : db.users[u].credibilityScore \in 0..100
    /\ \A u \in Users :
          CredDone(u) =>
              db.users[u].credibilityScore
                  = IntClamp(Round(CredibilityRaw(db, u)))

C2_Witness ==
    \E u \in Users :
        /\ CredDone(u)
        /\ db.users[u].credibilityScore = 100
        /\ REq(CredibilityRaw(db, u), RInt(110))
        /\ \E st \in db.users[u].credibilityStats :
              /\ st.avgSkillScore = 100
              /\ st.avgTeachingRating = 100
              /\ st.consistencyBonus = 10

\* the data the skill score of (u, k) is defined from
C3_Graded(u, k) ==
    {a \in Docs(db.assignments) : a.graded /\ a.userId = u /\ a.skillId = k}

C3_Sessions(u, k) ==
    {s \in Docs(db.sessions) :
        s.status = "completed" /\ s.skillId = k
        /\ (s.teacherId = u \/ s.learnerId = u)}

C3_Ratings(u, k) ==
    {f \in Docs(db.feedback) :
        f.toUserId = u /\ \E s \in C3_Sessions(u, k) : s.id = f.sessionId}

\* assignmentAvg*0.60 + feedbackAvg*0.30 + min(sessionCount*10, 100)*0.10
C3_Value(u, k) ==
    LET graded == C3_Graded(u, k)
        ratings == C3_Ratings(u, k)
        aN == SumOver(graded, [a \in graded |-> a.finalScore * 20])
        aD == IF graded = {} THEN 1 ELSE 100 * Cardinality(graded)
        fN == SumOver(ratings, [f \in ratings |-> f.rating * 20])
        fD == IF ratings = {} THEN 1 ELSE Cardinality(ratings)
        c == Min(Cardinality(C3_Sessions(u, k)) * 10, 100)
    IN Rat(6 * aN * fD + 3 * fN * aD + c * aD * fD, 10 * aD * fD)

\* C3: recomputeSkillScore returns and persists
\* finalScore = round(assignmentAvg*0.60 + feedbackAvg*0.30
\*                    + min(sessionCount*10, 100)*0.10)
\* over the user's graded assignments, skill-related feedback and completed
\* sessions of the skill (grades 4 and 5, one rating 4, 6 sessions: 84).
C3_SkillScoreFormula ==
    /\ \A u \in Users, k \in Skills :
          SkillDone(u, k) =>
              /\ <<u, k>> \in DOMAIN db.skillScores
              /\ IsRound(db.skillScores[<<u, k>>].finalScore, C3_Value(u, k))
    /\ last.op = "recomputeSkillScore" =>
          \A r \in last.value :
              /\ db.skillScores[r.id] = r
              /\ IsRound(r.finalScore, C3_Value(r.userId, r.skillId))

C3_Witness ==
    /\ last.op = "recomputeSkillScore"
    /\ \E r \in last.value :
          /\ r.userId = "u2"
          /\ Cardinality(C3_Graded("u2", "k1")) = 2
          /\ Cardinality(C3_Ratings("u2", "k1")) = 1
          /\ r.assignmentAvg = 90
          /\ r.feedbackAvg = 80
          /\ r.sessionCount = 6
          /\ r.finalScore = 84

C4_Step ==
    (last'.op = "recomputeSkillScore" /\ last'.before # {}) =>
        /\ \A r1 \in last'.before, r2 \in last'.value :
              /\ r1.finalScore = r2.finalScore
              /\ r1.assignmentAvg = r2.assignmentAvg
              /\ r1.feedbackAvg = r2.feedbackAvg
              /\ r1.sessionCount = r2.sessionCount
        /\ DOMAIN db'.skillScores = DOMAIN db.skillScores
        /\ \A id \in DOMAIN db.skillScores :
              Unstamped(db'.skillScores[id]) = Unstamped(db.skillScores[id])

\* C4: a second recomputeSkillScore for the same pair, with no change of
\* assignments, feedback or sessions since the first, returns the same
\* finalScore, assignmentAvg, feedbackAvg and sessionCount and leaves the same
\* set of SkillScore records; only updatedAt may differ.
C4_Idempotent == [][C4_Step]_vars

C4_Witness ==
    /\ last.op = "recomputeSkillScore"
    /\ \E r1 \in last.before, r2 \in last.value :
          /\ r1.userId = "u2"
          /\ r1.updatedAt = 0
          /\ r2.updatedAt = 1
          /\ r2.finalScore = r1.finalScore
          /\ r2.finalScore > 0
          /\ db.skillScores[r2.id] = r2

\* C5: in the three triggers a failure of recomputeSkillScore or
\* recomputeCredibilityScore after the primary write does not fail or roll
\* back the primary action: the call still returns the stored document.
C5_RecomputeFailureTolerated ==
    (last.op \in Triggers /\ last.failed \in RecomputeOps) =>
        /\ last.status = OK
        /\ last.value # {}
        /\ last.op = "submitFeedback" =>
              last.log[1].doc.id \in DOMAIN db.feedback
        /\ last.op = "gradeAssignment" => db.assignments[last.log[1].id].graded
        /\ last.op = "completeSession" =>
              db.sessions[last.log[1].id].status = "completed"

\* C6: runs that interleave with data changes may leave a stale record, but a
\* recomputeSkillScore for the pair that afterwards runs alone to completion
\* leaves the stored record equal to the from-scratch value of the current data.
C6_SoloRunConverges ==
    \A p \in Procs :
        (runs[p].pc = "done" /\ runs[p].alone /\ runs[p].seen = {Data(db)})
            => Fresh(db)

\* both callers had finished overlapping calls, the record was stale then,
\* and the one that ran again alone has made it fresh
C6_Witness ==
    \E p \in Procs :
        /\ runs[p].pc = "done" /\ runs[p].alone
        /\ runs[p].stale /\ runs[p].raced
        /\ runs[p].seen = {Data(db)}
        /\ \A q \in Procs : runs[q].pc = "done"
        /\ Fresh(db)

\* the user the last getCredibility call was for, if its first read completed
C10_User == {last.log[i].userId : i \in 1..Min(Len(last.log), 1)}

C10_OuterReads ==
    {"users.get", "userSkills.teach", "userSkills.learn", "feedback.to",
     "sessions.teacher", "sessions.learner"}

C10_NoNull(view) ==
    \A i \in 1..Len(view.upcomingSessions) :
        view.upcomingSessions[i].dateTime # {}

\* C10 as stated: getCredibility never propagates an error, no field of the
\* view is missing, undefined or null, and when the user does not exist or
\* any store read fails the view is the all-zero default object.
C10_AsStated ==
    last.op = "getCredibility" =>
        /\ last.status = OK
        /\ \A view \in last.value :
              /\ C10_NoNull(view)
              /\ (last.failed # "" \/ \A u \in C10_User : u \notin DOMAIN db.users)
                    => view = DefaultResponse

\* C10, amended: getCredibility never propagates an error and always returns
\* one view with every top-level field; an upcoming session's dateTime is null
\* exactly when the session has no scheduled time; the view is the all-zero
\* default when the user does not exist or a read before the upcoming
\* sessions queries fails; when an upcoming sessions query fails the view is
\* the computed one with upcomingSessions empty or taken from the fallback.
C10_ViewTotal ==
    last.op = "getCredibility" =>
        /\ last.status = OK
        /\ Cardinality(last.value) = 1
        /\ \A view \in last.value :
              /\ DOMAIN view = DOMAIN DefaultResponse
              /\ DOMAIN view.stats = DOMAIN DefaultResponse.stats
              /\ \A i \in 1..Len(view.upcomingSessions) :
                    LET e == view.upcomingSessions[i]
                    IN /\ e.id \in DOMAIN db.sessions
                       /\ e.dateTime = {} <=> db.sessions[e.id].scheduledAt = 0
                       /\ e.skill # "" /\ e.status = "scheduled"
              /\ (last.failed \in C10_OuterReads
                  \/ \A u \in C10_User : u \notin DOMAIN db.users)
                    => view = DefaultResponse
              /\ \A u \in C10_User :
                    (u \in DOMAIN db.users /\ last.failed \notin C10_OuterReads) =>
                        /\ view.credibilityScore = db.users[u].credibilityScore
                        /\ view.sessionsCompleted = C9_Count(u)
                        /\ view.stats.sessionCount = C9_Count(u)
                        /\ view.totalReviews
                              = Cardinality({f \in Docs(db.feedback) : f.toUserId = u})
                        /\ last.failed # "" =>
                              view.upcomingSessions
                                  \in {<<>>, UpcomingSessions(db.sessions, u)}
                        /\ last.failed = "" =>
                              Len(view.upcomingSessions)
                                  = Min(3, Cardinality({x \in Docs(db.sessions) :
                                            x.status = "scheduled"
                                            /\ (x.teacherId = u \/ x.learnerId = u)}))

\* an upcoming sessions query was rejected: the view returned is not the
\* default, its upcomingSessions are empty and the user has an open session
C10_Witness ==
    /\ last.op = "getCredibility"
    /\ last.failed = "sessions.upcomingAsLearner"
    /\ \E view \in last.value :
          /\ view # DefaultResponse
          /\ view.upcomingSessions = <<>>
          /\ view.sessionsCompleted = 5
          /\ view.credibilityScore > 0
    /\ \E u \in C10_User : UpcomingSessions(db.sessions, u) # <<>>

C11_Step ==
    (last'.op \in RecomputeOps /\ last'.failed # "") =>
        /\ last'.status = Thrown
        /\ last'.value = {}
        /\ \A i, j \in 1..Len(last'.log) :
              last'.log[i].op = last'.log[j].op => i = j
        /\ db'.skillScores = db.skillScores
        /\ db'.users = db.users

\* C11: when a store read or the final write of recomputeSkillScore or
\* recomputeCredibilityScore fails, the error reaches the caller, no store
\* call is tried again, and the stored SkillScore record and the user's
\* credibilityScore are exactly what they were before the call.
C11_FailFastNoWrite == [][C11_Step]_vars

\* the set() of a recompute was rejected: the stored record of the pair is
\* still the stale one, a session behind the data
C11_Witness ==
    /\ last.op = "recomputeSkillScore"
    /\ last.failed = "skillScores.set"
    /\ last.status = Thrown
    /\ Len(last.log) = 3
    /\ <<ConcUser, ConcSkill>> \in DOMAIN db.skillScores
    /\ db.skillScores[<<ConcUser, ConcSkill>>].sessionCount
          < Cardinality(C3_Sessions(ConcUser, ConcSkill))

C12_OnePerPair ==
    /\ \A id1, id2 \in DOMAIN db.skillScores :
          (/\ db.skillScores[id1].userId = db.skillScores[id2].userId
           /\ db.skillScores[id1].skillId = db.skillScores[id2].skillId)
              => id1 = id2
    /\ \A i \in 1..Len(last.log) :
          last.log[i].op = "recomputeSkillScore" =>
              LET id == <<last.log[i].userId, last.log[i].skillId>>
              IN /\ id \in DOMAIN db.skillScores
                 /\ db.skillScores[id]
                       = SkillScoreOf(db, last.log[i].userId,
                                      last.log[i].skillId,
                                      last.log[i].skillName, clock)

C12_Step == \A id \in DOMAIN db.skillScores : id \in DOMAIN db'.skillScores

\* C12: there is at most one SkillScore record per (userId, skillId):
\* recomputeSkillScore creates it on the first trigger and overwrites every
\* field of that record on later ones, and no operation deletes a record.
C12_OneRecordPerPair == []C12_OnePerPair /\ [][C12_Step]_vars

\* a grading has overwritten the record that the earlier triggers had made
C12_Witness ==
    /\ last.op = "gradeAssignment"
    /\ SkillDone("u2", "k1")
    /\ Cardinality({id \in DOMAIN db.skillScores :
                       db.skillScores[id].userId = "u2"}) = 1
    /\ db.skillScores[<<"u2", "k1">>].assignmentAvg = 90
    /\ db.skillScores[<<"u2", "k1">>].sessionCount = 6

\* C13: in every persisted SkillScore record, finalScore equals
\* round(assignmentAvg*0.60 + feedbackAvg*0.30 + min(sessionCount*10,100)*0.10)
\* computed from that record's own stored assignmentAvg, feedbackAvg and
\* sessionCount.
C13_FinalScoreFromStoredFields ==
    \A r \in Docs(db.skillScores) :
        r.finalScore = Round(WeightedScore(RInt(r.assignmentAvg),
                                           RInt(r.feedbackAvg),
                                           ConsistencyScore(r.sessionCount)))

\* the mean of the finalScore of a set of records, 0 for none
C14_Mean(T) ==
    IF T = {} THEN RInt(0)
    ELSE Rat(SumOver(T, [r \in T |-> r.finalScore]), Cardinality(T))

C14_Records(u) == {r \in Docs(db.skillScores) : r.userId = u}

\* T holds the three highest records of S (all of S when it has fewer)
C14_TopThree(T, S) ==
    /\ Cardinality(T) = Min(3, Cardinality(S))
    /\ \A r \in T, q \in S \ T : q.finalScore <= r.finalScore

\* the score recomputeCredibilityScore stores when the skill part averages T
C14_Score(u, T) ==
    LET teaching ==
            {f \in Docs(db.feedback) : f.toUserId = u /\ f.role = "learner"}
        rating == AvgTeachingRating(teaching)
        base == CASE T # {} /\ teaching # {} ->
                        Rat(C14_Mean(T).n * rating.d + rating.n * C14_Mean(T).d,
                            2 * C14_Mean(T).d * rating.d)
                  [] T # {} /\ teaching = {} -> C14_Mean(T)
                  [] T = {} /\ teaching # {} -> rating
                  [] OTHER -> RInt(0)
    IN IntClamp(Round(RAdd(base, RInt(C9_Bonus(C9_Count(u))))))

\* C14: recomputeCredibilityScore averages the finalScore of the user's three
\* highest SkillScore records (all of them when fewer, 0 when none); a fourth
\* or lower-ranked record never influences the credibility score.
C14_TopThreeOnly ==
    \A u \in Users :
        CredDone(u) =>
            \E T \in SUBSET C14_Records(u) :
                /\ C14_TopThree(T, C14_Records(u))
                /\ db.users[u].credibilityScore = C14_Score(u, T)
                /\ \A st \in db.users[u].credibilityStats :
                      st.avgSkillScore = Round(C14_Mean(T))

\* four records, the lowest left out: counting it would have changed the score
C14_Witness ==
    /\ CredDone("u1")
    /\ Cardinality(C14_Records("u1")) = 4
    /\ db.users["u1"].credibilityScore
          # C14_Score("u1", C14_Records("u1"))

\* the feedback addressed to u in completed sessions of skill k that u took
\* part in
C15_Counted(u, k) ==
    {f \in Docs(db.feedback) :
        /\ f.toUserId = u
        /\ \E id \in DOMAIN db.sessions :
              /\ id = f.sessionId
              /\ db.sessions[id].status = "completed"
              /\ db.sessions[id].skillId = k
              /\ (db.sessions[id].teacherId = u \/ db.sessions[id].learnerId = u)}

C15_FeedbackAvg(u, k) ==
    IF C15_Counted(u, k) = {} THEN RInt(0)
    ELSE Rat(20 * SumOver(C15_Counted(u, k),
                          [f \in C15_Counted(u, k) |-> f.rating]),
             Cardinality(C15_Counted(u, k)))

\* C15: the feedbackAvg of the SkillScore of (user, skill) counts exactly the
\* feedback addressed to the user in completed sessions of that skill the user
\* took part in; feedback received in sessions of another skill never changes
\* it.
C15_FeedbackOfTheSkill ==
    \A i \in 1..Len(last.log) :
        last.log[i].op = "recomputeSkillScore" =>
            LET u == last.log[i].userId
                k == last.log[i].skillId
            IN IsRound(db.skillScores[<<u, k>>].feedbackAvg,
                       C15_FeedbackAvg(u, k))

\* u2 holds a rating 4 in a k1 session and a rating 5 in a k2 session; the
\* score of (u2, k1), recomputed after both, still averages the 4 alone
C15_Witness ==
    /\ last.op = "recomputeSkillScore"
    /\ SkillDone("u2", "k1")
    /\ \E f \in C15_Counted("u2", "k2") : f.rating = 5
    /\ \E f \in C15_Counted("u2", "k1") : f.rating = 4
    /\ db.skillScores[<<"u2", "k1">>].feedbackAvg = 80
    /\ db.skillScores[<<"u2", "k2">>].feedbackAvg = 100

\* C17: in every session the request workflow creates (acceptRequest, or
\* confirmRequest followed by createSession) teacherId differs from
\* learnerId, so the credibility session count (teacher sessions plus learner
\* sessions) counts no session twice.
C17_TeacherIsNotLearner ==
    /\ \A x \in Docs(db.requests) : x.fromUserId # x.toUserId
    /\ \A x \in Docs(db.sessions) : x.teacherId # x.learnerId
    /\ \A u \in Users :
          CredDone(u) =>
              \A st \in db.users[u].credibilityStats :
                  st.sessionCount
                      = Cardinality({x \in Docs(db.sessions) :
                                        /\ x.status = "completed"
                                        /\ (x.teacherId = u \/ x.learnerId = u)})

\* a request accepted and then confirmed has made two sessions; both are
\* completed and each counts once for the teacher
C17_Witness ==
    /\ CredDone("u1")
    /\ \E x, y \in Docs(db.sessions) :
          /\ "requestId" \in DOMAIN x /\ "requestId" \notin DOMAIN y
          /\ x.status = "completed" /\ y.status = "completed"
          /\ x.teacherId = "u1" /\ y.teacherId = "u1"
    /\ \E st \in db.users["u1"].credibilityStats : st.sessionCount = 2

\* the feedback u received in sessions where u was the teacher
C16_AsTeacher(u) ==
    {f \in Docs(db.feedback) :
        f.toUserId = u /\ db.sessions[f.sessionId].teacherId = u}

C16_Rating(u) ==
    IF C16_AsTeacher(u) = {} THEN RInt(0)
    ELSE Rat(100 * SumOver(C16_AsTeacher(u),
                           [f \in C16_AsTeacher(u) |-> f.rating]),
             5 * Cardinality(C16_AsTeacher(u)))

\* C16: avgTeachingRating of recomputeCredibilityScore is computed only from
\* the feedback addressed to the user whose stored giver role is 'learner',
\* which is exactly the feedback the user received in sessions where the user
\* was the teacher; feedback received as the learner never contributes.
C16_TeachingFeedbackOnly ==
    /\ \A f \in Docs(db.feedback) :
          f.role = "learner" <=> db.sessions[f.sessionId].teacherId = f.toUserId
    /\ \A u \in Users :
          CredDone(u) =>
              \A st \in db.users[u].credibilityStats :
                  st.avgTeachingRating = Round(C16_Rating(u))

\* u2 was rated 4 as a learner and 5 as a teacher: the teaching rating is 100
C16_Witness ==
    /\ CredDone("u2")
    /\ \E f \in Docs(db.feedback) :
          f.toUserId = "u2" /\ f.role = "teacher" /\ f.rating = 4
    /\ \E f \in C16_AsTeacher("u2") : f.rating = 5
    /\ \E st \in db.users["u2"].credibilityStats : st.avgTeachingRating = 100

\* no recomputeCredibilityScore has completed for a user whose profile holds
\* no credibilityStats: the score is the one register wrote
C18_NeutralUntilRecomputed ==
    \A u \in Users :
        db.users[u].credibilityStats = {} => db.users[u].credibilityScore = 50

\* a step that changes a user's credibilityScore ran
\* recomputeCredibilityScore for that user
C18_Step ==
    \A u \in Users :
        db'.users[u].credibilityScore # db.users[u].credibilityScore =>
            \E i \in 1..Len(last'.log) :
                /\ last'.log[i].op = "recomputeCredibilityScore"
                /\ last'.log[i].userId = u

\* C18: a user's credibilityScore is 50 from registration until the first
\* recomputeCredibilityScore for that user completes, and no other operation
\* (in particular updateUserProfile) changes it.
C18_OnlyRecomputeChangesScore ==
    []C18_NeutralUntilRecomputed /\ [][C18_Step]_vars

\* updateUserProfile was sent a credibilityScore of 99 and changed the bio
\* alone, while another user's score has been recomputed
C18_Witness ==
    /\ last.op = "updateUserProfile"
    /\ last.status = OK
    /\ "credibilityScore" \in DOMAIN last.log[1].updates
    /\ db.users["u3"].bio = "b"
    /\ db.users["u3"].credibilityScore = 50
    /\ db.users["u3"].credibilityStats = {}
    /\ db.users["u2"].credibilityStats # {}
    /\ db.users["u2"].credibilityScore # 50

\* (u, k) has no graded assignment, no completed session and so no feedback
\* of the skill
C19_NoData(u, k) ==
    /\ C3_Graded(u, k) = {}
    /\ C3_Sessions(u, k) = {}
    /\ C3_Ratings(u, k) = {}

\* C19: for a (user, skill) pair with no graded assignments, no feedback and
\* no completed sessions, recomputeSkillScore succeeds and persists
\* finalScore 0 with assignmentAvg 0, feedbackAvg 0 and sessionCount 0.
C19_ZeroDataDefault ==
    \A i \in 1..Len(last.log) :
        (/\ last.log[i].op = "recomputeSkillScore"
         /\ C19_NoData(last.log[i].userId, last.log[i].skillId)) =>
            LET id == <<last.log[i].userId, last.log[i].skillId>>
            IN /\ last.status = OK
               /\ id \in DOMAIN db.skillScores
               /\ db.skillScores[id].finalScore = 0
               /\ db.skillScores[id].assignmentAvg = 0
               /\ db.skillScores[id].feedbackAvg = 0
               /\ db.skillScores[id].sessionCount = 0

\* the calculator was called for u3 and k2, a pair with nothing to score
C19_Witness ==
    /\ last.op = "recomputeSkillScore"
    /\ last.status = OK
    /\ SkillDone("u3", "k2")
    /\ C19_NoData("u3", "k2")
    /\ FeedbackTo(db.feedback, "u3") = {}
    /\ \E r \in last.value : r = db.skillScores[<<"u3", "k2">>] /\ r.finalScore = 0

\* no two feedback records share a session and a giver
C20_AtMostOne ==
    \A f, g \in Docs(db.feedback) :
        (f.sessionId = g.sessionId /\ f.fromUserId = g.fromUserId) => f = g

\* a feedback record is stored only for a giver who has none in the session,
\* and a call answered 409 stores nothing
C20_Step ==
    /\ \A id \in DOMAIN db'.feedback \ DOMAIN db.feedback :
          ExistingFeedback(db.feedback, db'.feedback[id].sessionId,
                           db'.feedback[id].fromUserId) = {}
    /\ (last' # last /\ last'.op = "submitFeedback" /\ last'.status = "409") =>
          db'.feedback = db.feedback

\* C20: for every (sessionId, fromUserId) at most one feedback record exists
\* after any sequence or interleaving of submitFeedback calls, two concurrent
\* submissions by the same user for the same session included; a second
\* submission is rejected with 409 and stores nothing.
C20_OneFeedbackPerGiver == []C20_AtMostOne /\ [][C20_Step]_vars

\* C21: a request has status 'accepted' exactly when a session document
\* carrying its requestId exists; no state shows the one without the other.
C21_AcceptedIffSession ==
    \A requestId \in 1..MaxRequests :
        (/\ requestId \in DOMAIN db.requests
         /\ db.requests[requestId].status = "accepted")
        <=> (\E x \in Docs(db.sessions) :
                "requestId" \in DOMAIN x /\ x.requestId = requestId)

\* C22: a request that has left 'pending' keeps the status it has: it is
\* not rejected, cancelled (deleted) or accepted afterwards.
C22_Step ==
    \A requestId \in DOMAIN db.requests :
        db.requests[requestId].status # "pending"
        => /\ requestId \in DOMAIN db'.requests
           /\ db'.requests[requestId].status = db.requests[requestId].status

C22_LeavesPendingOnce == [][C22_Step]_vars

\* C23: completeSession completes only a session read as 'scheduled' or
\* 'ongoing'; for a completed session it returns the session and writes
\* nothing; for any other status it answers 400 and writes nothing.
C23_Guard ==
    \A sessionId \in DOMAIN db.sessions :
        \A userId \in {db.sessions[sessionId].teacherId, db.sessions[sessionId].learnerId} :
            CompleteSessionStatus(db, sessionId, userId) =
                IF db.sessions[sessionId].status \in {"scheduled", "ongoing", "completed"}
                THEN OK ELSE "400"

C23_Step ==
    /\ (last' # last /\ last'.op = "completeSession" /\ last'.status # OK)
       => db' = db
    /\ (last' # last /\ last'.op = "completeSession" /\ last'.status = OK
        /\ last'.log = <<>>)
       => /\ db' = db
          /\ \A x \in last'.value : x.status = "completed" /\ db.sessions[x.id] = x
    /\ \A sessionId \in DOMAIN db.sessions :
        (db.sessions[sessionId].status # "completed"
         /\ db'.sessions[sessionId].status = "completed")
        => \E p \in Procs :
              /\ runs[p].pc = "update"
              /\ runs'[p].pc = "query"
              /\ \A x \in runs[p].session :
                    x.id = sessionId /\ x.status \in {"scheduled", "ongoing"}

C23_CompleteSessionGuards == []C23_Guard /\ [][C23_Step]_vars

\* a completeSession call on a 'cancelled' session was answered 400
C23_Witness ==
    /\ last.op = "completeSession"
    /\ last.status = "400"
    /\ db.sessions[1].status = "cancelled"

\* C24: gradeAssignment passes its checks only for the teacher of the
\* assignment's session, on a submitted assignment that is not graded yet,
\* and a call it rejects changes nothing; a graded assignment is submitted
\* and is never changed again; submitAssignment passes only for the owner of
\* an assignment not submitted yet, and a submitted assignment stays so.
C24_Guards ==
    /\ \A a \in Docs(db.assignments) : a.graded => a.submitted
    /\ \A assignmentId \in DOMAIN db.assignments :
        LET a == db.assignments[assignmentId]
        IN /\ \A graderId \in Users, scores \in ScoreInputs :
                GradeAssignmentStatus(db, assignmentId, graderId, scores) = OK
                => /\ graderId = db.sessions[a.sessionId].teacherId
                   /\ a.submitted
                   /\ ~a.graded
           /\ \A userId \in Users :
                SubmitAssignmentStatus(db, assignmentId, userId) = OK
                => userId = a.userId /\ ~a.submitted

C24_Step ==
    /\ (last' # last /\ last'.op = "gradeAssignment"
        /\ last'.status \in {"400", "403", "404"})
       => db' = db
    /\ \A assignmentId \in DOMAIN db.assignments :
        LET a == db.assignments[assignmentId]
            b == db'.assignments[assignmentId]
        IN /\ a.graded => b = a
           /\ a.submitted => b.submitted
           /\ (~a.graded /\ b.graded)
              => /\ last'.op = "gradeAssignment"
                 /\ a.submitted
                 /\ b.gradedBy = db.sessions[a.sessionId].teacherId
           /\ (~a.submitted /\ b.submitted) => last'.op = "submitAssignment"

C25_OnePerSessionUser ==
    \A sessionId \in DOMAIN db.sessions, userId \in Users :
        LET session == db.sessions[sessionId]
            existing == ExistingAssignments(db.assignments, sessionId, userId)
        IN /\ Cardinality(existing) <= 1
           /\ existing # {}
              => \/ userId = session.learnerId
                 \/ /\ userId = session.teacherId
                    /\ session.mode = "mutual"
                    /\ session.learnerSkill # ""

\* C26: when one request has been sent, at most one session exists for its
\* learner, teacher and skill: accepting and then confirming the request
\* gives no second session.
C26_OneSessionPerRequest ==
    \A r \in Docs(db.requests) :
        Cardinality(DOMAIN db.requests) = 1 =>
        Cardinality({x \in Docs(db.sessions) :
                        /\ x.learnerId = r.fromUserId
                        /\ x.teacherId = r.toUserId
                        /\ x.skillId = r.skillId}) <= 1

\* C27: a session whose status is 'completed' keeps that status, whatever
\* completeSession, joinSession and scheduleSession calls interleave on it.
C27_Step ==
    \A sessionId \in DOMAIN db.sessions :
        db.sessions[sessionId].status = "completed"
        => db'.sessions[sessionId].status = "completed"

C27_CompletedStaysCompleted == [][C27_Step]_vars

\* C28: with the handlers run one at a time and no store call failing, after
\* every call each stored SkillScore record equals the skill score computed
\* from the current assignments, feedback and sessions, and the
\* credibilityScore of every user it was computed for equals the credibility
\* computed from the current data.
C28_FromScratch ==
    /\ \A id \in DOMAIN db.skillScores :
        LET r == db.skillScores[id]
        IN Unstamped(r)
            = Unstamped(SkillScoreOf(db, r.userId, r.skillId, r.skillName, 0))
    /\ \A u \in Users :
        db.users[u].credibilityStats # {}
        => /\ db.users[u].credibilityScore
                = CredibilityUpdate(db, u, 0).credibilityScore
           /\ \A st \in db.users[u].credibilityStats :
                \A fresh \in CredibilityUpdate(db, u, 0).credibilityStats :
                    [st EXCEPT !.updatedAt = 0] = fresh

\* a submitFeedback that returned, with graded work, a rating and a completed
\* session behind the recipient's stored scores
C28_Witness ==
    /\ last.op = "submitFeedback"
    /\ last.status = OK
    /\ last.failed = ""
    /\ \E r \in Docs(db.skillScores) :
          /\ r.userId = last.log[1].doc.toUserId
          /\ r.assignmentAvg > 0
          /\ r.feedbackAvg > 0
          /\ r.sessionCount > 0
    /\ db.users[last.log[1].doc.toUserId].credibilityStats # {}
    /\ db.users[last.log[1].doc.toUserId].credibilityScore \notin {0, 50}

\* C29: every graded assignment has a stored finalScore between 1 and 5
\* (in hundredths: 100..500), so it contributes 20..100 to assignmentAvg.
C29_GradedFinalScoreInRange ==
    \A a \in Docs(db.assignments) :
        a.graded => a.finalScore \in 100..500

\* C30: the grader of a graded assignment is not the assignment's owner,
\* in single-mode and in mutual-mode sessions.
C30_NoSelfGrading ==
    \A a \in Docs(db.assignments) :
        a.graded => a.gradedBy # a.userId

\* the users a trigger recomputes for, and the skill
C7_Targets ==
    IF last.op = "submitFeedback" THEN {last.log[1].doc.toUserId}
    ELSE IF last.op = "gradeAssignment"
    THEN {db.assignments[last.log[1].id].userId}
    ELSE {db.sessions[last.log[1].id].learnerId,
          db.sessions[last.log[1].id].teacherId}

C7_Skill ==
    IF last.op = "submitFeedback"
    THEN db.sessions[last.log[1].doc.sessionId].skillId
    ELSE IF last.op = "gradeAssignment"
    THEN db.assignments[last.log[1].id].skillId
    ELSE db.sessions[last.log[1].id].skillId

C7_PrimaryWrite ==
    IF last.op = "submitFeedback" THEN "feedback.set"
    ELSE IF last.op = "gradeAssignment" THEN "assignment.grade"
    ELSE "session.update"

\* C7: every trigger runs the primary write first, then recomputeSkillScore
\* for each of its users (recipient; assignment owner; both participants),
\* and only then recomputeCredibilityScore for each of them.
C7_SkillThenCredibility ==
    (last.op \in Triggers /\ last.log # <<>>) =>
        /\ last.log[1].op = C7_PrimaryWrite
        /\ \A i \in 1..Len(last.log) :
              last.log[i].op \in RecomputeOps =>
                  i > 1 /\ last.log[i].userId \in C7_Targets
        /\ \A i \in 1..Len(last.log) :
              last.log[i].op = "recomputeCredibilityScore" =>
                  \A u \in C7_Targets :
                      \E j \in 1..(i - 1) :
                          /\ last.log[j].op = "recomputeSkillScore"
                          /\ last.log[j].userId = u
                          /\ last.log[j].skillId = C7_Skill
        /\ last.failed = "" => \A u \in C7_Targets : CredDone(u)

C7_Witness ==
    LET n == Len(last.log)
    IN /\ last.op = "completeSession"
       /\ last.failed = ""
       /\ n >= 5
       /\ last.log[1].op = "session.update"
       /\ last.log[n - 3].op = "recomputeSkillScore"
       /\ last.log[n - 2].op = "recomputeSkillScore"
       /\ last.log[n - 1].op = "recomputeCredibilityScore"
       /\ last.log[n].op = "recomputeCredibilityScore"
       /\ last.log[n - 3].userId # last.log[n - 2].userId
       /\ last.log[n - 1].userId # last.log[n].userId

\* the blend of C8: the average of the two when the user has both skill score
\* records and teaching feedback, the one that exists when only one does, 0
\* when neither does
C8_Base(u) ==
    LET skills == SkillsSnapshot(db.skillScores, u)
        teaching ==
            {f \in Docs(db.feedback) : f.toUserId = u /\ f.role = "learner"}
        avgSkillScore == AvgSkillScore(skills)
        avgTeachingRating == AvgTeachingRating(teaching)
    IN CASE skills # {} /\ teaching # {} ->
                Rat(avgSkillScore.n * avgTeachingRating.d
                      + avgTeachingRating.n * avgSkillScore.d,
                    2 * avgSkillScore.d * avgTeachingRating.d)
         [] skills # {} /\ teaching = {} -> avgSkillScore
         [] skills = {} /\ teaching # {} -> avgTeachingRating
         [] OTHER -> RInt(0)

C8_Score(u) ==
    IntClamp(Round(RAdd(C8_Base(u), RInt(C9_Bonus(C9_Count(u))))))

\* C8: before the bonus, recomputeCredibilityScore takes
\* (avgSkillScore + avgTeachingRating)/2 when both exist, avgSkillScore (not
\* halved) when only skill scores exist, avgTeachingRating when only teaching
\* feedback exists, and 0 when neither exists.
C8_Blend ==
    \A u \in Users : CredDone(u) => db.users[u].credibilityScore = C8_Score(u)

\* three users at once: only teaching feedback, only skill scores, neither
C8_Witness ==
    /\ CredDone("u1")
    /\ \A u \in Users :
          db.users[u].credibilityStats # {}
          /\ db.users[u].credibilityScore = C8_Score(u)
    /\ SkillsSnapshot(db.skillScores, "u1") = {}
    /\ TeachingFeedback(db.feedback, "u1") # {}
    /\ db.users["u1"].credibilityScore = 100
    /\ SkillsSnapshot(db.skillScores, "u2") # {}
    /\ TeachingFeedback(db.feedback, "u2") = {}
    /\ db.users["u2"].credibilityScore
          = Round(AvgSkillScore(SkillsSnapshot(db.skillScores, "u2")))
    /\ db.users["u2"].credibilityScore > 0
    /\ SkillsSnapshot(db.skillScores, "u3") = {}
    /\ TeachingFeedback(db.feedback, "u3") = {}
    /\ db.users["u3"].credibilityScore = 0

\* C9: the consistency bonus is a step function of the user's completed
\* sessions as teacher plus as learner: 0 below 5, 2 for 5..14, 5 for 15..29,
\* 10 from 30 on (4: 0, 5: 2, 15: 5, 29: 5, 30: 10).
C9_ConsistencyBonus ==
    /\ \A u \in Users :
          CredDone(u) =>
              /\ db.users[u].credibilityStats # {}
              /\ \A st \in db.users[u].credibilityStats :
                    /\ st.sessionCount = C9_Count(u)
                    /\ st.consistencyBonus = C9_Bonus(C9_Count(u))
    /\ \A u \in Users :
          \A st \in db.users[u].credibilityStats :
              st.consistencyBonus = C9_Bonus(st.sessionCount)
    /\ ConsistencyBonus(4) = 0 /\ ConsistencyBonus(5) = 2
    /\ ConsistencyBonus(15) = 5 /\ ConsistencyBonus(29) = 5
    /\ ConsistencyBonus(30) = 10

\* one completion whose second credibility update was rejected: the learner
\* stands at 30 sessions (bonus 10), the teacher still at 29 (bonus 5)
C9_Witness ==
    /\ CredDone("u2")
    /\ \E st \in db.users["u2"].credibilityStats :
          st.sessionCount = 30 /\ st.consistencyBonus = 10
    /\ \E st \in db.users["u1"].credibilityStats :
          st.sessionCount = 29 /\ st.consistencyBonus = 5

====
